---- MODULE Spec2Model ----
(***************************************************************************)
(* Model of the 5GC configuration pre-processing pipeline:                 *)
(*   src/src/chunker.py       SmartChunker                                 *)
(*   src/src/desensitizer.py  ConfigDesensitizer                           *)
(*   src/src/preprocessor.py  ConfigPreProcessor                           *)
(*                                                                         *)
(* A text is a sequence of symbols.  A symbol is one character ("a", "=",  *)
(* "\n", a digit ...) or one word of the configuration language that the   *)
(* code only ever treats as a unit ("BEGIN", "END").  Every string         *)
(* operation of the source (split, join, slicing, substring test, regular  *)
(* expression substitution) is computed on these sequences.                *)
(***************************************************************************)
EXTENDS Integers, Sequences, FiniteSets, TLC

VARIABLES
    pc,        \* position of the driver: which call has returned
    chunker,   \* SmartChunker instance: the fields __init__ reads from config.yaml
    text,      \* argument of chunk_text
    chunks,    \* value returned by chunk_text
    merged,    \* value returned by merge_chunks
    desensitizer,  \* ConfigDesensitizer instance: configuration, mapping, statistics
    call,      \* the last desensitize_text call: argument, returned text and mapping
    first,     \* the desensitize_text call before the last one
    file,      \* the file at the path handed to process_file
    preprocessor,  \* ConfigPreProcessor instance: the cumulative statistics
    results,   \* the ProcessingResults returned so far, in call order
    directory, \* the directory handed to process_directory: what it enumerates, how far the loop is
    summary,   \* the summary document process_directory wrote
    detected,  \* value returned by detect_format
    extracted  \* the metadata documents MetadataExtractor.extract returned so far

vars == <<pc, chunker, text, chunks, merged, desensitizer, call, first, file, preprocessor,
          results, directory, summary, detected, extracted>>

(***************************************************************************)
(* Bounds                                                                  *)
(***************************************************************************)
MaxLines == 4

MaxSegments == 3

MaxFileLines == 2

\* entries of a directory handed to process_directory
MaxEntries == 3

(***************************************************************************)
(* Generic helpers                                                         *)
(***************************************************************************)
Max(a, b) == IF a >= b THEN a ELSE b

Min(a, b) == IF a <= b THEN a ELSE b

\* Python slice s[from:] with 0-based `from' (0 <= from)
Drop(s, from) == IF from >= Len(s) THEN << >> ELSE SubSeq(s, from + 1, Len(s))

\* Python slice s[lo:hi] with 0-based bounds, 0 <= lo
Slice(s, lo, hi) == IF Min(hi, Len(s)) <= lo THEN << >> ELSE SubSeq(s, lo + 1, Min(hi, Len(s)))

RECURSIVE Concat(_)
Concat(ss) == IF ss = << >> THEN << >> ELSE Head(ss) \o Concat(Tail(ss))

\* all sequences over S of length lo..hi
SeqsOf(S, lo, hi) == UNION {[1..n -> S] : n \in lo..hi}

\* text.count('\n') restricted to the prefix text[:pos]
RECURSIVE CountNewlines(_, _)
CountNewlines(t, pos) ==
    IF pos <= 0 THEN 0
    ELSE CountNewlines(t, pos - 1) + (IF t[pos] = "\n" THEN 1 ELSE 0)

\* str.split('\n'): always at least one element
RECURSIVE SplitFrom(_, _, _)
SplitFrom(t, i, cur) ==
    IF i > Len(t) THEN <<cur>>
    ELSE IF t[i] = "\n" THEN <<cur>> \o SplitFrom(t, i + 1, << >>)
    ELSE SplitFrom(t, i + 1, Append(cur, t[i]))

SplitLines(t) == SplitFrom(t, 1, << >>)

\* '\n'.join(lines): the empty list joins to the empty string
RECURSIVE JoinLines(_)
JoinLines(ls) ==
    IF ls = << >> THEN << >>
    ELSE IF Len(ls) = 1 THEN ls[1]
    ELSE ls[1] \o <<"\n">> \o JoinLines(Tail(ls))

\* len(line.encode('utf-8')): every symbol is ASCII, a word counts its letters
SymbolBytes(c) == CASE c = "BEGIN" -> 5 [] c = "END" -> 3 [] OTHER -> 1

RECURSIVE ByteLen(_)
ByteLen(line) == IF line = << >> THEN 0 ELSE SymbolBytes(Head(line)) + ByteLen(Tail(line))

\* marker in line
Contains(line, c) == \E i \in 1..Len(line) : line[i] = c

(***************************************************************************)
(* SmartChunker configuration (config.yaml, section chunking)              *)
(***************************************************************************)
\* smart_chunking.section_markers
section_markers == <<"#">>

\* smart_chunking.preserve_blocks: one pattern, BEGIN.*?END, compiled with
\* re.DOTALL | re.MULTILINE.  PreserveMatchEnd(t, i) is the end (exclusive,
\* 0-based) of the match that starts at 1-based position i, or 0.
RECURSIVE FirstEndFrom(_, _)
FirstEndFrom(t, j) ==
    IF j > Len(t) THEN 0
    ELSE IF t[j] = "END" THEN j
    ELSE FirstEndFrom(t, j + 1)

PreserveMatchEnd(t, i) == IF t[i] = "BEGIN" THEN FirstEndFrom(t, i + 1) ELSE 0

\* pattern.finditer(text): leftmost, non-overlapping matches; each match
\* becomes (start_line, end_line) as in lines 346-352
RECURSIVE FindBlocks(_, _)
FindBlocks(t, i) ==
    IF i > Len(t) THEN << >>
    ELSE LET e == PreserveMatchEnd(t, i)
         IN  IF e = 0 THEN FindBlocks(t, i + 1)
             ELSE << <<CountNewlines(t, i - 1) + 1, CountNewlines(t, e) + 1>> >>
                  \o FindBlocks(t, e + 1)

\* blocks.sort(key=lambda x: x[0]): stable insertion sort on the start line
RECURSIVE InsertBlock(_, _)
InsertBlock(sorted, b) ==
    IF sorted = << >> THEN <<b>>
    ELSE IF b[1] < Head(sorted)[1] THEN <<b>> \o sorted
    ELSE <<Head(sorted)>> \o InsertBlock(Tail(sorted), b)

RECURSIVE SortBlocks(_)
SortBlocks(bs) ==
    IF bs = << >> THEN << >>
    ELSE InsertBlock(SortBlocks(SubSeq(bs, 1, Len(bs) - 1)), bs[Len(bs)])

RECURSIVE MergeInto(_, _)
MergeInto(mergedBlocks, rest) ==
    IF rest = << >> THEN mergedBlocks
    ELSE LET last == mergedBlocks[Len(mergedBlocks)]
             cur  == Head(rest)
         IN  IF cur[1] <= last[2] + 1
             THEN MergeInto([mergedBlocks EXCEPT ![Len(mergedBlocks)] =
                                 <<last[1], Max(last[2], cur[2])>>], Tail(rest))
             ELSE MergeInto(Append(mergedBlocks, cur), Tail(rest))

_merge_overlapping_blocks(blocks) ==
    IF blocks = << >> THEN << >>
    ELSE LET s == SortBlocks(blocks) IN MergeInto(<<Head(s)>>, Tail(s))

\* the raw matches of the preserve pattern, as line ranges
PreserveMatches(lines) == FindBlocks(JoinLines(lines), 1)

_identify_preserve_blocks(lines) == _merge_overlapping_blocks(PreserveMatches(lines))

(***************************************************************************)
(* ConfigChunk.  overlap_start / overlap_end are Optional[int]: << >> is   *)
(* None, <<n>> is n.  src is a ghost field: the source line numbers of the *)
(* lines that make up content, in order.  features and the other metadata  *)
(* entries do not influence any boundary and are left out.  size_bytes is  *)
(* metadata['size_bytes'], << >> where the metadata has no such key.       *)
(***************************************************************************)
ContentOf(lines, src) == JoinLines([k \in 1..Len(src) |-> lines[src[k]]])

ConfigChunk(id, s, e, content, src, strategy) ==
    [chunk_id |-> id, start_line |-> s, end_line |-> e, content |-> content,
     src |-> src, strategy |-> strategy, overlap_start |-> << >>, overlap_end |-> << >>,
     size_bytes |-> << >>]

_create_chunk(self, id, s, e, lines, src) ==
    ConfigChunk(id, s, e, ContentOf(lines, src), src, self.strategy)

(***************************************************************************)
(* SmartChunker._smart_chunking                                            *)
(* The loop state is (chunks, current_chunk_lines, current_chunk_start,    *)
(* chunk_id); current_chunk_lines is kept as the list of source line       *)
(* numbers whose text it holds.  current_features is left out.             *)
(***************************************************************************)
\* index of the first block that contains line_no, or 0
RECURSIVE BlockOf(_, _, _)
BlockOf(blocks, line_no, k) ==
    IF k > Len(blocks) THEN 0
    ELSE IF blocks[k][1] <= line_no /\ line_no <= blocks[k][2] THEN k
    ELSE BlockOf(blocks, line_no, k + 1)

\* lines 115-129: close the current chunk before a block that would overflow
FlushBeforeBlock(self, lines, st, line_no, b) ==
    IF Len(st.cur) > 0 /\ Len(st.cur) + (b[2] - b[1] + 1) > self.chunk_size_lines
    THEN [chunks |-> Append(st.chunks,
                            _create_chunk(self, st.id, st.start, line_no - 1, lines, st.cur)),
          cur |-> << >>, start |-> line_no, id |-> st.id + 1]
    ELSE st

\* lines 131-137: for i in range(block_start - 1, block_end): if i < len(lines)
BlockLines(lines, b) == [k \in 1..(Min(b[2], Len(lines)) - b[1] + 1) |-> b[1] + k - 1]

\* lines 111-141; the assignment line_no = block_end at line 140 rebinds the
\* loop variable of `for line_no, line in enumerate(lines, 1)' and so has no
\* effect on the iteration: the next line of the block is visited as well
PreserveStep(self, lines, st, line_no, b) ==
    LET f == FlushBeforeBlock(self, lines, st, line_no, b)
    IN  [f EXCEPT !.cur = f.cur \o BlockLines(lines, b)]

\* should_split with the marker test alone: a marker closes any chunk
should_split_AnyMarker(self, lines, cur, line_no) ==
    \/ Len(cur) >= self.chunk_size_lines
    \/ \E m \in 1..Len(section_markers) : Contains(lines[line_no], section_markers[m])

\* lines 151-161
should_split(self, lines, cur, line_no) ==
    \/ Len(cur) >= self.chunk_size_lines
    \/ \E m \in 1..Len(section_markers) :
           /\ Contains(lines[line_no], section_markers[m])
           /\ Len(cur) > self.chunk_size_lines \div 2

\* lines 176-178: the lines that seed the next chunk
OverlapSeed(self, cur) == Drop(cur, Max(0, Len(cur) - self.overlap_lines))

\* lines 143-184
PlainStep(self, lines, st, line_no) ==
    LET cur == Append(st.cur, line_no)
    IN  IF should_split(self, lines, cur, line_no)
        THEN LET seed == OverlapSeed(self, cur)
             IN  [chunks |-> Append(st.chunks,
                                    _create_chunk(self, st.id, st.start, line_no, lines, cur)),
                  cur |-> seed, start |-> line_no - Len(seed) + 1, id |-> st.id + 1]
        ELSE [st EXCEPT !.cur = cur]

RECURSIVE SmartLoop(_, _, _, _, _)
SmartLoop(self, lines, blocks, st, line_no) ==
    IF line_no > Len(lines) THEN st
    ELSE LET k  == BlockOf(blocks, line_no, 1)
             nx == IF k > 0 THEN PreserveStep(self, lines, st, line_no, blocks[k])
                   ELSE PlainStep(self, lines, st, line_no)
         IN  SmartLoop(self, lines, blocks, nx, line_no + 1)

\* _smart_chunking without lines 187-195: the last open chunk is not saved
_smart_chunking_NoLastChunk(self, t) ==
    LET lines == SplitLines(t)
    IN  SmartLoop(self, lines, _identify_preserve_blocks(lines),
                  [chunks |-> << >>, cur |-> << >>, start |-> 1, id |-> 0], 1).chunks

_smart_chunking(self, t) ==
    LET lines  == SplitLines(t)
        blocks == _identify_preserve_blocks(lines)
        st     == SmartLoop(self, lines, blocks,
                            [chunks |-> << >>, cur |-> << >>, start |-> 1, id |-> 0], 1)
    IN  IF st.cur # << >>
        THEN Append(st.chunks, _create_chunk(self, st.id, st.start, Len(lines), lines, st.cur))
        ELSE st.chunks

(***************************************************************************)
(* SmartChunker._fixed_lines_chunking                                      *)
(***************************************************************************)
\* the chunk built for loop index i (0-based), lines 209-230
FixedLinesChunk(self, lines, id, i) ==
    LET start_line == i + 1
        end_line   == Min(i + self.chunk_size_lines, Len(lines))
        src        == [k \in 1..(end_line - i) |-> i + k]
        c          == ConfigChunk(id, start_line, end_line, ContentOf(lines, src), src,
                                  "fixed_lines")
    IN  [c EXCEPT !.overlap_start =
                      IF i > 0 THEN <<Max(1, start_line - self.overlap_lines)>> ELSE << >>,
                  !.overlap_end =
                      IF end_line < Len(lines)
                      THEN <<Min(Len(lines), end_line + self.overlap_lines)>> ELSE << >>]

\* for i in range(0, len(lines), step), step > 0
RECURSIVE FixedLinesLoop(_, _, _, _, _)
FixedLinesLoop(self, lines, step, id, i) ==
    IF i >= Len(lines) THEN << >>
    ELSE <<FixedLinesChunk(self, lines, id, i)>>
         \o FixedLinesLoop(self, lines, step, id + 1, i + step)

\* range() raises ValueError for step 0 and is empty for a negative step
FixedLinesRaises(self) == self.chunk_size_lines - self.overlap_lines = 0

_fixed_lines_chunking(self, t) ==
    LET lines == SplitLines(t)
        step  == self.chunk_size_lines - self.overlap_lines
    IN  IF step < 0 THEN << >> ELSE FixedLinesLoop(self, lines, step, 0, 0)

(***************************************************************************)
(* SmartChunker._fixed_size_chunking                                       *)
(* chunk_size_kb is counted in units of 1/1024 KB (YAML allows a fraction),*)
(* so that target_size = chunk_size_kb * 1024 is self.chunk_size_kb here.  *)
(***************************************************************************)
target_size(self) == self.chunk_size_kb

\* lines 259-271 and 286-297: the chunk of the lines cur, with
\* metadata['size_bytes'] = current_size
FixedSizeChunk(id, s, e, lines, cur, current_size) ==
    [ConfigChunk(id, s, e, ContentOf(lines, cur), cur, "fixed_size") EXCEPT
         !.size_bytes = <<current_size>>]

\* the loop of lines 250-279; st.size is current_size
RECURSIVE FixedSizeLoop(_, _, _, _)
FixedSizeLoop(self, lines, st, line_no) ==
    IF line_no > Len(lines) THEN st
    ELSE LET line_size == ByteLen(lines[line_no])
             cut == st.size + line_size > target_size(self) /\ st.cur # << >>
             st1 == IF cut
                    THEN [chunks |-> Append(st.chunks,
                                            FixedSizeChunk(st.id, st.start, line_no - 1,
                                                           lines, st.cur, st.size)),
                          cur |-> << >>, start |-> line_no, id |-> st.id + 1, size |-> 0]
                    ELSE st
         IN  FixedSizeLoop(self, lines,
                           [st1 EXCEPT !.cur = Append(st1.cur, line_no),
                                       !.size = st1.size + line_size],
                           line_no + 1)

_fixed_size_chunking(self, t) ==
    LET lines == SplitLines(t)
        st    == FixedSizeLoop(self, lines,
                               [chunks |-> << >>, cur |-> << >>, start |-> 1, id |-> 0,
                                size |-> 0], 1)
    IN  IF st.cur # << >>
        THEN Append(st.chunks, FixedSizeChunk(st.id, st.start, Len(lines), lines, st.cur,
                                              st.size))
        ELSE st.chunks

(***************************************************************************)
(* SmartChunker.chunk_text                                                 *)
(***************************************************************************)
\* the one chunk of disabled mode; content is the text itself, not a join
DisabledChunk(t) ==
    LET n == Len(SplitLines(t))
    IN  ConfigChunk(0, 1, n, t, [k \in 1..n |-> k], "disabled")

chunk_text_raises(self) ==
    self.enabled /\ self.strategy = "fixed_lines" /\ FixedLinesRaises(self)

chunk_text(self, t) ==
    IF ~self.enabled THEN <<DisabledChunk(t)>>
    ELSE IF self.strategy = "smart" THEN _smart_chunking(self, t)
    ELSE IF self.strategy = "fixed_lines" THEN _fixed_lines_chunking(self, t)
    ELSE IF self.strategy = "fixed_size" THEN _fixed_size_chunking(self, t)
    ELSE _smart_chunking(self, t)

(***************************************************************************)
(* SmartChunker.merge_chunks                                               *)
(***************************************************************************)
\* sorted(chunks, key=lambda x: x.chunk_id): stable insertion sort
RECURSIVE InsertChunk(_, _)
InsertChunk(sorted, c) ==
    IF sorted = << >> THEN <<c>>
    ELSE IF c.chunk_id < Head(sorted).chunk_id THEN <<c>> \o sorted
    ELSE <<Head(sorted)>> \o InsertChunk(Tail(sorted), c)

RECURSIVE SortChunks(_)
SortChunks(cs) ==
    IF cs = << >> THEN << >>
    ELSE InsertChunk(SortChunks(SubSeq(cs, 1, Len(cs) - 1)), cs[Len(cs)])

\* Python lines[skip:], skip may be negative
PySliceFrom(s, skip) == IF skip >= 0 THEN Drop(s, skip) ELSE Drop(s, Max(0, Len(s) + skip))

\* SkipOverlap with the overlap test dropped: the lines are kept as they are
SkipOverlap_KeepAll(chunk, lines, last_end_line) == lines

\* lines 499-502
SkipOverlap(chunk, lines, last_end_line) ==
    IF /\ chunk.overlap_start # << >>
       /\ chunk.overlap_start[1] # 0
       /\ chunk.overlap_start[1] <= last_end_line
    THEN PySliceFrom(lines, last_end_line - chunk.start_line + 1)
    ELSE lines

RECURSIVE MergeLoop(_, _, _)
MergeLoop(sorted_chunks, k, last_end_line) ==
    IF k > Len(sorted_chunks) THEN << >>
    ELSE LET chunk == sorted_chunks[k]
         IN  SkipOverlap(chunk, SplitLines(chunk.content), last_end_line)
             \o MergeLoop(sorted_chunks, k + 1, chunk.end_line)

merge_chunks(cs) == JoinLines(MergeLoop(SortChunks(cs), 1, 0))

(***************************************************************************)
(* Character classes and regular-expression primitives (module re)         *)
(***************************************************************************)
Digits == {"0", "1", "2", "3", "4", "5", "6", "7", "8", "9"}

\* \s
Whitespace == {" ", "\n", "\t"}

\* the symbols that are not \w: every other symbol is a letter, a digit or "_"
NonWord == Whitespace \cup {".", ",", ";", ":", "=", "/", "*", "+", "-", "&", "[", "]",
                            "?", "#", "@"}

IsDigit(c) == c \in Digits

IsSpace(c) == c \in Whitespace

IsWord(c) == c \notin NonWord

\* \b at the gap before 1-based position i (i in 1..Len(t)+1)
WordAt(t, i) == i >= 1 /\ i <= Len(t) /\ IsWord(t[i])

WordBoundary(t, i) == WordAt(t, i - 1) # WordAt(t, i)

\* length of the run of digits that starts at position i
RECURSIVE DigitRun(_, _)
DigitRun(t, i) == IF i <= Len(t) /\ IsDigit(t[i]) THEN 1 + DigitRun(t, i + 1) ELSE 0

\* t[i..] starts with the literal lit
StartsWith(t, i, lit) ==
    /\ i >= 1
    /\ i + Len(lit) - 1 <= Len(t)
    /\ \A k \in 1..Len(lit) : t[i + k - 1] = lit[k]

\* str.lower() on ASCII letters
UpperCase == <<"A", "B", "C", "D", "E", "F", "G", "H", "I", "J", "K", "L", "M",
               "N", "O", "P", "Q", "R", "S", "T", "U", "V", "W", "X", "Y", "Z">>

LowerCase == <<"a", "b", "c", "d", "e", "f", "g", "h", "i", "j", "k", "l", "m",
               "n", "o", "p", "q", "r", "s", "t", "u", "v", "w", "x", "y", "z">>

LowerOf == [c \in {UpperCase[k] : k \in 1..Len(UpperCase)} |->
                LowerCase[CHOOSE k \in 1..Len(UpperCase) : UpperCase[k] = c]]

Lower(c) == IF c \in DOMAIN LowerOf THEN LowerOf[c] ELSE c

\* the same under re.IGNORECASE
StartsWithIgnoreCase(t, i, lit) ==
    /\ i >= 1
    /\ i + Len(lit) - 1 <= Len(t)
    /\ \A k \in 1..Len(lit) : Lower(t[i + k - 1]) = Lower(lit[k])

\* first position >= i whose symbol is not in S (Len(t)+1 if none): S* greedy
RECURSIVE SkipWhile(_, _, _)
SkipWhile(t, i, S) == IF i <= Len(t) /\ t[i] \in S THEN SkipWhile(t, i + 1, S) ELSE i

\* first position >= i whose symbol is in S (Len(t)+1 if none): [^S]* greedy
RECURSIVE SkipUntil(_, _, _)
SkipUntil(t, i, S) == IF i <= Len(t) /\ t[i] \notin S THEN SkipUntil(t, i + 1, S) ELSE i

\* last 1-based position of the symbol c in t, 0 if none
RECURSIVE LastIndexOf(_, _, _)
LastIndexOf(t, c, i) ==
    IF i < 1 THEN 0 ELSE IF t[i] = c THEN i ELSE LastIndexOf(t, c, i - 1)

(***************************************************************************)
(* Desensitization patterns (config.yaml, section desensitization.patterns)*)
(* Each XxxMatchEnd(t, i) is the last position of the match of the pattern *)
(* that starts at position i, or 0 when the pattern does not match there.  *)
(***************************************************************************)
\* one group [0-9]{1,3} followed by the symbol `after' (a dot): its run length, or 0
OctetDot(t, i) ==
    LET r == DigitRun(t, i)
    IN  IF r >= 1 /\ r <= 3 /\ i + r <= Len(t) /\ t[i + r] = "." THEN r ELSE 0

\* ip_addresses.pattern: \b(?:[0-9]{1,3}\.){3}[0-9]{1,3}\b
IpMatchEnd(t, i) ==
    IF ~IsDigit(t[i]) \/ ~WordBoundary(t, i) THEN 0
    ELSE LET r1 == OctetDot(t, i)
             i2 == i + r1 + 1
             r2 == IF r1 = 0 THEN 0 ELSE OctetDot(t, i2)
             i3 == i2 + r2 + 1
             r3 == IF r2 = 0 THEN 0 ELSE OctetDot(t, i3)
             i4 == i3 + r3 + 1
             r4 == IF r3 = 0 THEN 0 ELSE DigitRun(t, i4)
         IN  IF r4 >= 1 /\ r4 <= 3 /\ WordBoundary(t, i4 + r4) THEN i4 + r4 - 1 ELSE 0

\* 1[3-9]\d{9}\b from position i
NationalNumberEnd(t, i) ==
    IF /\ i + 10 <= Len(t)
       /\ t[i] = "1"
       /\ t[i + 1] \in {"3", "4", "5", "6", "7", "8", "9"}
       /\ DigitRun(t, i) >= 11
       /\ WordBoundary(t, i + 11)
    THEN i + 10 ELSE 0

\* phone_numbers.pattern: \b(?:\+86)?1[3-9]\d{9}\b
PhoneMatchEnd(t, i) ==
    IF t[i] \notin {"+", "1"} \/ ~WordBoundary(t, i) THEN 0
    ELSE IF StartsWith(t, i, <<"+", "8", "6">>) THEN NationalNumberEnd(t, i + 3)
    ELSE NationalNumberEnd(t, i)

\* imsi.pattern: \b460\d{12}\b
ImsiMatchEnd(t, i) ==
    IF /\ t[i] = "4"
       /\ WordBoundary(t, i)
       /\ StartsWith(t, i, <<"4", "6", "0">>)
       /\ DigitRun(t, i) >= 15
       /\ WordBoundary(t, i + 15)
    THEN i + 14 ELSE 0

\* imei.pattern: \b\d{15}\b
ImeiMatchEnd(t, i) ==
    IF IsDigit(t[i]) /\ WordBoundary(t, i) /\ DigitRun(t, i) >= 15 /\ WordBoundary(t, i + 15)
    THEN i + 14 ELSE 0

\* urls.pattern: https?://[^\s]+
UrlMatchEnd(t, i) ==
    LET h == <<"h", "t", "t", "p">>
        j == IF StartsWith(t, i, h)
             THEN (IF StartsWith(t, i + 4, <<"s">>) THEN i + 5 ELSE i + 4)
             ELSE 0
        k == IF j > 0 /\ StartsWith(t, j, <<":", "/", "/">>) THEN j + 3 ELSE 0
        e == IF k > 0 THEN SkipUntil(t, k, Whitespace) ELSE 0
    IN  IF k > 0 /\ e > k THEN e - 1 ELSE 0

\* the `replacement' entries
IpReplacement == <<"x", "x", "x", ".", "x", "x", "x", ".", "x", "x", "x", ".", "x", "x", "x">>

ImsiReplacement == <<"I", "M", "S", "I", "_", "M", "A", "S", "K", "E", "D">>

ImeiReplacement == <<"I", "M", "E", "I", "_", "M", "A", "S", "K", "E", "D">>

UrlReplacement == <<"h", "t", "t", "p", "s", ":", "/", "/", "m", "a", "s", "k", "e", "d">>

\* passwords.keywords, in list order
PasswordKeywords ==
    << <<"p", "a", "s", "s", "w", "o", "r", "d">>, <<"s", "e", "c", "r", "e", "t">>,
       <<"k", "e", "y">> >>

MatchEnd(cat, t, i) ==
    CASE cat = "ip_addresses" -> IpMatchEnd(t, i)
      [] cat = "phone_numbers" -> PhoneMatchEnd(t, i)
      [] cat = "imsi" -> ImsiMatchEnd(t, i)
      [] cat = "imei" -> ImeiMatchEnd(t, i)
      [] cat = "urls" -> UrlMatchEnd(t, i)

(***************************************************************************)
(* ConfigDesensitizer: the replacement callbacks                           *)
(* A mapping (dict original -> masked) is a function on a set of texts.    *)
(***************************************************************************)
EmptyMap == [x \in {} |-> << >>]

MapPut(mapping, k, v) == [x \in (DOMAIN mapping) \cup {k} |-> IF x = k THEN v ELSE mapping[x]]

\* mapping.update(other)
MapUpdate(mapping, other) ==
    [x \in (DOMAIN mapping) \cup (DOMAIN other) |->
        IF x \in DOMAIN other THEN other[x] ELSE mapping[x]]

\* ip.split('.')[0] and [1]; f"{parts[0]}.{parts[1]}.xxx.xxx"
KeepSubnetMask(ip) ==
    LET d1 == SkipUntil(ip, 1, {"."})
        d2 == SkipUntil(ip, d1 + 1, {"."})
    IN  SubSeq(ip, 1, d2 - 1) \o <<".", "x", "x", "x", ".", "x", "x", "x">>

\* a callback without the `if ip not in mapping' guard that masks a value it
\* has seen before in the other of the two forms
replace_ip_Unguarded(self, ip, mapping) ==
    MapPut(mapping, ip, IF ip \in DOMAIN mapping THEN KeepSubnetMask(ip) ELSE IpReplacement)

\* replace_ip, lines 118-128: the mapping after the call; the callback returns mapping[ip]
replace_ip(self, ip, mapping) ==
    IF ip \notin DOMAIN mapping
    THEN MapPut(mapping, ip, IF self.keep_subnet THEN KeepSubnetMask(ip) ELSE IpReplacement)
    ELSE mapping

\* f"{phone[:3]}****{phone[-2:]}"
PhoneMask(phone) ==
    Slice(phone, 0, 3) \o <<"*", "*", "*", "*">> \o PySliceFrom(phone, 0 - 2)

\* replace_phone, lines 142-148
replace_phone(self, phone, mapping) ==
    IF phone \notin DOMAIN mapping THEN MapPut(mapping, phone, PhoneMask(phone)) ELSE mapping

\* hashlib.md5(identifier.encode()).hexdigest()[:8], tabulated for the
\* identifiers of the input vocabulary
Md5Hex8(identifier) ==
    CASE identifier = <<"4", "6", "0", "0", "0", "1", "2", "3", "4", "5", "6", "7", "8", "9", "0">>
             -> <<"8", "b", "1", "1", "b", "1", "d", "7">>
      [] identifier = <<"8", "6", "1", "2", "3", "4", "5", "6", "7", "8", "9", "0", "1", "2", "3">>
             -> <<"e", "e", "7", "3", "1", "2", "e", "9">>
      [] OTHER -> <<"0", "0", "0", "0", "0", "0", "0", "0">>

\* replace_id, lines 162-169
replace_id(self, id_type, identifier, mapping) ==
    IF identifier \notin DOMAIN mapping
    THEN MapPut(mapping, identifier,
                (IF id_type = "imsi" THEN ImsiReplacement ELSE ImeiReplacement)
                    \o <<"_">> \o Md5Hex8(identifier))
    ELSE mapping

\* urllib.parse.urlparse(url): scheme and netloc of a match of the url pattern
UrlScheme(url) == SubSeq(url, 1, SkipUntil(url, 1, {":"}) - 1)

UrlNetloc(url) ==
    LET s == SkipUntil(url, 1, {":"}) + 3
    IN  SubSeq(url, s, SkipUntil(url, s, {"/", "?", "#"}) - 1)

\* lines 239-248
KeepDomainMask(url) ==
    LET netloc == UrlNetloc(url)
        dot    == LastIndexOf(netloc, ".", Len(netloc))
        masked_domain ==
            IF dot > 0
            THEN <<"m", "a", "s", "k", "e", "d", ".">> \o Drop(netloc, dot)
            ELSE <<"m", "a", "s", "k", "e", "d", ".", "d", "o", "m", "a", "i", "n">>
    IN  UrlScheme(url) \o <<":", "/", "/">> \o masked_domain \o <<"/", "p", "a", "t", "h">>

\* replace_url, lines 236-252
replace_url(self, url, mapping) ==
    IF url \notin DOMAIN mapping
    THEN MapPut(mapping, url, IF self.keep_domain THEN KeepDomainMask(url) ELSE UrlReplacement)
    ELSE mapping

\* the callback handed to regex.sub by the pass of category cat
Replace(self, cat, m, mapping) ==
    CASE cat = "ip_addresses" -> replace_ip(self, m, mapping)
      [] cat = "phone_numbers" -> replace_phone(self, m, mapping)
      [] cat = "imsi" -> replace_id(self, "imsi", m, mapping)
      [] cat = "imei" -> replace_id(self, "imei", m, mapping)
      [] cat = "urls" -> replace_url(self, m, mapping)

\* regex.sub(callback, text): leftmost non-overlapping matches, each replaced
\* by what the callback returns.  st = [out, mapping, events]; events is a
\* ghost: the (original, mask) pair of every replacement made, in order.
\* the positions of t at which the pattern of cat matches
MatchStarts(cat, t) == {j \in 1..Len(t) : MatchEnd(cat, t, j) > 0}

\* the least position of starts at or after position i, n + 1 if none: the
\* start of the leftmost match that does not overlap the one before
Search(starts, i, n) ==
    IF \E j \in starts : j >= i
    THEN CHOOSE j \in starts : j >= i /\ \A k \in starts : k >= i => j <= k
    ELSE n + 1

\* the state after the match m was handed to the callback, mp the mapping the
\* callback left: the text before the match is copied, the match replaced
Substitute(t, i, j, m, mp, st) ==
    [out |-> st.out \o SubSeq(t, i, j - 1) \o mp[m], mapping |-> mp,
     events |-> Append(st.events, <<m, mp[m]>>)]

RECURSIVE ReSubLoop(_, _, _, _, _, _)
RECURSIVE ReSubFrom(_, _, _, _, _, _, _)
RECURSIVE ReSubMatch(_, _, _, _, _, _, _, _)
ReSubMatch(self, cat, t, starts, i, j, m, st) ==
    ReSubLoop(self, cat, t, starts, j + Len(m),
              Substitute(t, i, j, m, Replace(self, cat, m, st.mapping), st))

\* j = the start of the next match
ReSubFrom(self, cat, t, starts, i, j, st) ==
    IF j > Len(t) THEN [st EXCEPT !.out = @ \o SubSeq(t, i, Len(t))]
    ELSE ReSubMatch(self, cat, t, starts, i, j, SubSeq(t, j, MatchEnd(cat, t, j)), st)

ReSubLoop(self, cat, t, starts, i, st) ==
    ReSubFrom(self, cat, t, starts, i, Search(starts, i, Len(t)), st)

ReSub(self, cat, t, i, st) == ReSubLoop(self, cat, t, MatchStarts(cat, t), i, st)

NoSub(t) == [out |-> t, mapping |-> EmptyMap, events |-> << >>]

SubStart == [out |-> << >>, mapping |-> EmptyMap, events |-> << >>]

\* lines 108-131; a category missing from self.patterns leaves the text as it is
_desensitize_ip_addresses(self, t) ==
    IF "ip_addresses" \notin self.patterns THEN NoSub(t)
    ELSE ReSub(self, "ip_addresses", t, 1, SubStart)

\* lines 133-151
_desensitize_phone_numbers(self, t) ==
    IF "phone_numbers" \notin self.patterns THEN NoSub(t)
    ELSE ReSub(self, "phone_numbers", t, 1, SubStart)

\* lines 153-172
_desensitize_identifiers(self, t, id_type) ==
    IF id_type \notin self.patterns THEN NoSub(t)
    ELSE ReSub(self, id_type, t, 1, SubStart)

\* lines 226-255
_desensitize_urls(self, t) ==
    IF "urls" \notin self.patterns THEN NoSub(t)
    ELSE ReSub(self, "urls", t, 1, SubStart)

(***************************************************************************)
(* ConfigDesensitizer._desensitize_passwords                               *)
(***************************************************************************)
PasswordMask == <<"*", "*", "*", "*", "*", "*", "*", "*">>

ValueStop == Whitespace \cup {",", ";"}

\* rf'({keyword})\s*[=:]\s*([^\s,;]+)' with re.IGNORECASE: the match that
\* starts at i: its last position, or 0
\* ([^\s,;]+) from position b: the last position of the match, 0 if empty
PasswordValueEnd(t, b, e) == IF e > b THEN e - 1 ELSE 0

\* [=:]\s*([^\s,;]+) from position a
PasswordAssignEnd(t, a) ==
    IF a <= Len(t) /\ t[a] \in {"=", ":"}
    THEN PasswordValueEnd(t, SkipWhile(t, a + 1, Whitespace),
                          SkipUntil(t, SkipWhile(t, a + 1, Whitespace), ValueStop))
    ELSE 0

PasswordMatch(keyword, t, i) ==
    IF Lower(t[i]) = Lower(keyword[1]) /\ StartsWithIgnoreCase(t, i, keyword)
    THEN PasswordAssignEnd(t, SkipWhile(t, i + Len(keyword), Whitespace))
    ELSE 0

\* replace_pwd, lines 186-193: masked = f"{key}={masked_value}", key as matched
replace_pwd(keyword, full_match) ==
    SubSeq(full_match, 1, Len(keyword)) \o <<"=">> \o PasswordMask

PasswordStarts(keyword, t) == {j \in 1..Len(t) : PasswordMatch(keyword, t, j) > 0}

\* mapping[full_match] = masked, whether or not full_match was seen before
PasswordSubstitute(t, i, j, full_match, masked, st) ==
    [out |-> st.out \o SubSeq(t, i, j - 1) \o masked,
     mapping |-> MapPut(st.mapping, full_match, masked),
     events |-> Append(st.events, <<full_match, masked>>)]

RECURSIVE PasswordSubLoop(_, _, _, _, _)
RECURSIVE PasswordSubFrom(_, _, _, _, _, _)
RECURSIVE PasswordSubMatch(_, _, _, _, _, _, _)
PasswordSubMatch(keyword, t, starts, i, j, full_match, st) ==
    PasswordSubLoop(keyword, t, starts, j + Len(full_match),
                    PasswordSubstitute(t, i, j, full_match, replace_pwd(keyword, full_match), st))

PasswordSubFrom(keyword, t, starts, i, j, st) ==
    IF j > Len(t) THEN [st EXCEPT !.out = @ \o SubSeq(t, i, Len(t))]
    ELSE PasswordSubMatch(keyword, t, starts, i, j,
                          SubSeq(t, j, PasswordMatch(keyword, t, j)), st)

PasswordSubLoop(keyword, t, starts, i, st) ==
    PasswordSubFrom(keyword, t, starts, i, Search(starts, i, Len(t)), st)

PasswordSub(keyword, t, i, st) ==
    PasswordSubLoop(keyword, t, PasswordStarts(keyword, t), i, st)

\* for keyword in keywords: result = regex.sub(replace_pwd, result)
RECURSIVE PasswordLoop(_, _, _)
PasswordLoop(keywords, k, st) ==
    IF k > Len(keywords) THEN st
    ELSE PasswordLoop(keywords, k + 1,
                      PasswordSub(keywords[k], st.out, 1,
                                  [out |-> << >>, mapping |-> st.mapping, events |-> st.events]))

\* lines 174-197; the keywords are read from self.config at every call
_desensitize_passwords(self, t) == PasswordLoop(self.keywords, 1, NoSub(t))

(***************************************************************************)
(* ConfigDesensitizer._desensitize_customer_names                          *)
(***************************************************************************)
\* the built-in list of lines 211-215 (no keywords_file); the three names in
\* Chinese script close the list and cannot occur in a text of ASCII symbols
CustomerKeywords ==
    << <<"C", "h", "i", "n", "a", " ", "M", "o", "b", "i", "l", "e">>,
       <<"C", "h", "i", "n", "a", " ", "U", "n", "i", "c", "o", "m">>,
       <<"C", "h", "i", "n", "a", " ", "T", "e", "l", "e", "c", "o", "m">>,
       <<"V", "o", "d", "a", "f", "o", "n", "e">>,
       <<"O", "r", "a", "n", "g", "e">>,
       <<"T", "-", "M", "o", "b", "i", "l", "e">>,
       <<"A", "T", "&", "T">>,
       <<"V", "e", "r", "i", "z", "o", "n">> >>

DigitSymbol(n) == CASE n = 0 -> "0" [] n = 1 -> "1" [] n = 2 -> "2" [] n = 3 -> "3"
                    [] n = 4 -> "4" [] n = 5 -> "5" [] n = 6 -> "6" [] n = 7 -> "7"
                    [] n = 8 -> "8" [] n = 9 -> "9"

\* f"CUSTOMER_{idx+1:03d}" for the 1-based list position n = idx + 1
CustomerMask(n) ==
    <<"C", "U", "S", "T", "O", "M", "E", "R", "_">>
        \o <<DigitSymbol((n \div 100) % 10), DigitSymbol((n \div 10) % 10), DigitSymbol(n % 10)>>

\* keyword in result
HasSubstring(t, lit) == \E i \in 1..Len(t) : t[i] = lit[1] /\ StartsWith(t, i, lit)

\* result.replace(keyword, replacement)
RECURSIVE StrReplace(_, _, _, _)
StrReplace(t, lit, repl, i) ==
    IF i > Len(t) THEN << >>
    ELSE IF StartsWith(t, i, lit) THEN repl \o StrReplace(t, lit, repl, i + Len(lit))
    ELSE <<t[i]>> \o StrReplace(t, lit, repl, i + 1)

RECURSIVE CountOccurrences(_, _, _)
CountOccurrences(t, lit, i) ==
    IF i > Len(t) THEN 0
    ELSE IF StartsWith(t, i, lit) THEN 1 + CountOccurrences(t, lit, i + Len(lit))
    ELSE CountOccurrences(t, lit, i + 1)

\* lines 217-222
RECURSIVE CustomerLoop(_, _, _)
CustomerLoop(keywords, k, st) ==
    IF k > Len(keywords) THEN st
    ELSE IF HasSubstring(st.out, keywords[k])
    THEN CustomerLoop(keywords, k + 1,
             [out |-> StrReplace(st.out, keywords[k], CustomerMask(k), 1),
              mapping |-> MapPut(st.mapping, keywords[k], CustomerMask(k)),
              events |-> st.events \o [n \in 1..CountOccurrences(st.out, keywords[k], 1) |->
                                          <<keywords[k], CustomerMask(k)>>]])
    ELSE CustomerLoop(keywords, k + 1, st)

_desensitize_customer_names(self, t) == CustomerLoop(CustomerKeywords, 1, NoSub(t))

(***************************************************************************)
(* ConfigDesensitizer.desensitize_text and _update_statistics              *)
(***************************************************************************)
Categories ==
    <<"ip_addresses", "phone_numbers", "imsi", "imei", "passwords", "customers", "urls">>

\* the pass of category cat on text t
CategoryPass(self, cat, t) ==
    CASE cat = "ip_addresses" -> _desensitize_ip_addresses(self, t)
      [] cat = "phone_numbers" -> _desensitize_phone_numbers(self, t)
      [] cat = "imsi" -> _desensitize_identifiers(self, t, "imsi")
      [] cat = "imei" -> _desensitize_identifiers(self, t, "imei")
      [] cat = "passwords" -> _desensitize_passwords(self, t)
      [] cat = "customers" -> _desensitize_customer_names(self, t)
      [] cat = "urls" -> _desensitize_urls(self, t)

\* lines 73-101: the passes in order, each on the result of the one before;
\* acc = [result, local_mapping, events]
\* local_mapping[cat] = the mapping of the pass r; result = its text
AccPut(acc, cat, r) ==
    [result |-> r.out,
     local_mapping |-> [acc.local_mapping EXCEPT ![cat] = r.mapping],
     events |-> [acc.events EXCEPT ![cat] = r.events]]

RECURSIVE RunPasses(_, _, _)
RunPasses(self, k, acc) ==
    IF k > Len(Categories) THEN acc
    ELSE RunPasses(self, k + 1,
                   AccPut(acc, Categories[k], CategoryPass(self, Categories[k], acc.result)))

CategorySet == {Categories[k] : k \in 1..Len(Categories)}

\* desensitize_text, lines 59-106, without the statistics update; a disabled
\* desensitizer returns (text, {})
desensitize_text(self, t) ==
    IF ~self.enabled
    THEN [result |-> t, local_mapping |-> EmptyMap, events |-> [c \in CategorySet |-> << >>]]
    ELSE RunPasses(self, 1, [result |-> t,
                             local_mapping |-> [c \in CategorySet |-> EmptyMap],
                             events |-> [c \in CategorySet |-> << >>]])

RECURSIVE SumOver(_, _)
SumOver(f, S) ==
    IF S = {} THEN 0 ELSE LET x == CHOOSE y \in S : TRUE IN f[x] + SumOver(f, S \ {x})

\* _update_statistics that starts every call from empty counters
_update_statistics_Reset(statistics, local_mapping) ==
    LET added == [c \in DOMAIN local_mapping |-> Cardinality(DOMAIN local_mapping[c])]
    IN  [total_replacements |-> SumOver(added, DOMAIN added),
         by_type |-> [c \in {d \in DOMAIN added : added[d] > 0} |-> added[c]]]

\* _update_statistics, lines 257-263
_update_statistics(statistics, local_mapping) ==
    LET added == [c \in DOMAIN local_mapping |-> Cardinality(DOMAIN local_mapping[c])]
    IN  [total_replacements |-> statistics.total_replacements + SumOver(added, DOMAIN added),
         by_type |-> [c \in (DOMAIN statistics.by_type)
                              \cup {d \in DOMAIN added : added[d] > 0} |->
                          (IF c \in DOMAIN statistics.by_type THEN statistics.by_type[c] ELSE 0)
                              + (IF c \in DOMAIN added THEN added[c] ELSE 0)]]

(***************************************************************************)
(* Inputs of the desensitizer: texts made of up to MaxSegments segments    *)
(***************************************************************************)
SegmentVocabulary ==
    { <<"1", ".", "2", ".", "3", ".", "4">>,
      <<"5", ".", "6", ".", "7", ".", "8">>,
      <<".", "2", ".", "3", ".", "4">>,
      <<"1", "3", "8", "1", "2", "3", "4", "5", "6", "7", "8">>,
      <<"4", "6", "0", "0", "0", "1", "2", "3", "4", "5", "6", "7", "8", "9", "0">>,
      <<"8", "6", "1", "2", "3", "4", "5", "6", "7", "8", "9", "0", "1", "2", "3">>,
      <<"k", "e", "y", "=">>,
      <<"v">>,
      <<"k", "e", "y", ":", "v", ";">>,
      <<"\n">>,
      <<"O", "r", "a", "n", "g", "e">>,
      <<"h", "t", "t", "p", ":", "/", "/", "a", ".", "c", "n", "/">> }

DesensitizerTexts == {Concat(ss) : ss \in SeqsOf(SegmentVocabulary, 0, MaxSegments)}

\* ConfigDesensitizer.__init__: the configuration, the compiled patterns, an
\* empty cumulative mapping and zeroed statistics
NewDesensitizer(enabled, keep_subnet, keep_domain) ==
    [enabled |-> enabled,
     patterns |-> {"ip_addresses", "phone_numbers", "imsi", "imei", "urls"},
     keywords |-> PasswordKeywords,
     keep_subnet |-> keep_subnet, keep_domain |-> keep_domain,
     mapping |-> EmptyMap,
     statistics |-> [total_replacements |-> 0, by_type |-> EmptyMap]]

\* enabled with both keep_ options off or on, and disabled
DesensitizerConfigs ==
    {NewDesensitizer(TRUE, k, k) : k \in BOOLEAN} \cup {NewDesensitizer(FALSE, FALSE, FALSE)}

NoCall == [text |-> << >>, result |-> << >>, local_mapping |-> EmptyMap, events |-> EmptyMap]

\* ConfigPreProcessor.__init__, lines 66-73: the statistics the model keeps
NewPreProcessor ==
    [statistics |-> [files_processed |-> 0, chunks_created |-> 0, desensitization_count |-> 0]]

\* no path was handed to process_file
NoFile ==
    [path |-> "", stem |-> "", suffix |-> << >>, exists |-> FALSE, content |-> << >>,
     report_writable |-> TRUE]

\* no directory was handed to process_directory
NoDirectory == [exists |-> FALSE, entries |-> << >>, walked |-> 0]

(***************************************************************************)
(* Inputs of the chunker                                                   *)
(***************************************************************************)
\* the lines a text is made of
LineVocabulary == {<< >>, <<"a">>, <<"BEGIN">>, <<"END">>, <<"#">>}

Texts == {JoinLines(ls) : ls \in SeqsOf(LineVocabulary, 1, MaxLines)}

\* chunking.chunk_size_lines, chunking.overlap_lines, chunking.chunk_size_kb
ChunkSizeLinesValues == {1, 2, 3}

OverlapLinesValues == {0, 1, 2}

ChunkSizeKbValues == {1, 5}

Strategies == {"smart", "fixed_lines", "fixed_size", "adaptive"}

DefaultChunker ==
    [enabled |-> TRUE, strategy |-> "smart", chunk_size_lines |-> 3,
     chunk_size_kb |-> 5, overlap_lines |-> 1]

\* smart chunking with an overlap one line short of the chunk size
WideOverlapChunker == [DefaultChunker EXCEPT !.chunk_size_lines = 4, !.overlap_lines = 3]

\* the configurations that differ in a field the selected strategy reads
ChunkerConfigs ==
    {[DefaultChunker EXCEPT !.enabled = FALSE]}
    \cup {[DefaultChunker EXCEPT !.strategy = "fixed_size", !.chunk_size_kb = kb] :
              kb \in ChunkSizeKbValues}
    \cup {[DefaultChunker EXCEPT !.strategy = s, !.chunk_size_lines = w, !.overlap_lines = o] :
              s \in Strategies \ {"fixed_size"}, w \in ChunkSizeLinesValues,
              o \in OverlapLinesValues}
    \cup {WideOverlapChunker}

(***************************************************************************)
(* Chunker driver: chunk_text, then merge_chunks on its result             *)
(***************************************************************************)
Init ==
    /\ pc = "start"
    /\ chunker \in ChunkerConfigs
    /\ text \in Texts
    /\ chunks = << >>
    /\ merged = << >>
    /\ desensitizer = NewDesensitizer(TRUE, FALSE, FALSE)
    /\ call = NoCall
    /\ first = NoCall
    /\ file = NoFile
    /\ preprocessor = NewPreProcessor
    /\ results = << >>
    /\ directory = NoDirectory
    /\ summary = << >>
    /\ detected = << >>
    /\ extracted = << >>

ChunkText ==
    /\ pc = "start"
    /\ ~chunk_text_raises(chunker)
    /\ chunks' = chunk_text(chunker, text)
    /\ pc' = "chunked"
    /\ UNCHANGED <<chunker, text, merged, desensitizer, call, first, file, preprocessor, results,
                 directory, summary, detected, extracted>>

ChunkTextRaises ==
    /\ pc = "start"
    /\ chunk_text_raises(chunker)
    /\ pc' = "raised"
    /\ UNCHANGED <<chunker, text, chunks, merged, desensitizer, call, first, file, preprocessor, results,
                 directory, summary, detected, extracted>>

MergeChunks ==
    /\ pc = "chunked"
    /\ merged' = merge_chunks(chunks)
    /\ pc' = "merged"
    /\ UNCHANGED <<chunker, text, chunks, desensitizer, call, first, file, preprocessor, results,
                 directory, summary, detected, extracted>>

Next == ChunkText \/ ChunkTextRaises \/ MergeChunks

Spec == Init /\ [][Next]_vars

(***************************************************************************)
(* Properties of the chunker                                               *)
(***************************************************************************)
W == chunker.chunk_size_lines

O == chunker.overlap_lines

L == Len(SplitLines(text))

CeilDiv(a, b) == (a + b - 1) \div b

LineCount(chunk) == Len(SplitLines(chunk.content))

ToSet(s) == {s[k] : k \in 1..Len(s)}

FixedLines == chunker.enabled /\ chunker.strategy = "fixed_lines"

FixedSize == chunker.enabled /\ chunker.strategy = "fixed_size"

Smart == chunker.enabled /\ chunker.strategy \notin {"fixed_lines", "fixed_size"}

\* C1: with fixed_lines, 0 <= O < W and L > W, chunk_text returns exactly
\* ceil((L - O) / (W - O)) chunks and every chunk but the last has W lines.
C1_FixedLinesChunkCount ==
    (pc = "chunked" /\ FixedLines /\ 0 <= O /\ O < W /\ L > W)
        => /\ Len(chunks) = CeilDiv(L - O, W - O)
           /\ \A k \in 1..(Len(chunks) - 1) : LineCount(chunks[k]) = W

\* C2: with fixed_lines (0 <= O < W) or fixed_size, merge_chunks(chunk_text(T))
\* equals T exactly, for every text T.
C2_MergeRoundTrip ==
    (pc = "merged" /\ ((FixedLines /\ 0 <= O /\ O < W) \/ FixedSize)) => merged = text

\* a fixed_lines run with overlap whose last window is entirely covered by the
\* chunk before it, on a text that ends in an empty line
C2_Witness ==
    /\ pc = "merged" /\ FixedLines /\ 0 < O /\ O < W
    /\ Len(chunks) >= 3
    /\ chunks[Len(chunks) - 1].end_line = L
    /\ SplitLines(text)[L] = << >>
    /\ merged = text

C4_PreserveBlocksWhole ==
    (pc = "chunked" /\ chunker.enabled /\ chunker.strategy = "smart")
        => LET ms == PreserveMatches(SplitLines(text))
           IN  \A k \in 1..Len(chunks) : \A m \in 1..Len(ms) :
                   LET range == ms[m][1]..ms[m][2]
                       held  == ToSet(chunks[k].src) \cap range
                   IN  held = {} \/ held = range

\* C5: a text that needs no splitting (chunking disabled, or enabled and
\* L < chunk_size_lines) yields exactly one chunk whose content is the text.
C5_NoSplitOneChunk ==
    (pc = "chunked" /\ (~chunker.enabled \/ L < W))
        => Len(chunks) = 1 /\ chunks[1].content = text

(***************************************************************************)
(* Desensitizer driver: desensitize_text on a text, then once more on the  *)
(* text it returned                                                        *)
(***************************************************************************)
\* the call desensitize_text(t) on the instance: what it returns and the
\* statistics it leaves behind
CallDesensitize(t) ==
    \E r \in {desensitize_text(desensitizer, t)} :
        /\ call' = [text |-> t, result |-> r.result, local_mapping |-> r.local_mapping,
                    events |-> r.events]
        /\ desensitizer' =
               IF desensitizer.enabled
               THEN [desensitizer EXCEPT
                         !.statistics = _update_statistics(@, r.local_mapping)]
               ELSE desensitizer

InitDesensitizer ==
    /\ pc = "idle"
    /\ desensitizer \in DesensitizerConfigs
    /\ call = NoCall
    /\ first = NoCall
    /\ chunker = DefaultChunker
    /\ text = << >>
    /\ chunks = << >>
    /\ merged = << >>
    /\ file = NoFile
    /\ preprocessor = NewPreProcessor
    /\ results = << >>
    /\ directory = NoDirectory
    /\ summary = << >>
    /\ detected = << >>
    /\ extracted = << >>

DesensitizeText ==
    /\ pc = "idle"
    /\ \E t \in DesensitizerTexts : CallDesensitize(t)
    /\ first' = first
    /\ pc' = "returned"
    /\ UNCHANGED <<chunker, text, chunks, merged, file, preprocessor, results,
                 directory, summary, detected, extracted>>

DesensitizeAgain ==
    /\ pc = "returned"
    /\ CallDesensitize(call.result)
    /\ first' = call
    /\ pc' = "returned_again"
    /\ UNCHANGED <<chunker, text, chunks, merged, file, preprocessor, results,
                 directory, summary, detected, extracted>>

NextDesensitizer == DesensitizeText \/ DesensitizeAgain

SpecDesensitizer == InitDesensitizer /\ [][NextDesensitizer]_vars

(***************************************************************************)
(* Properties of the desensitizer                                          *)
(***************************************************************************)
Returned == pc \in {"returned", "returned_again"} /\ desensitizer.enabled

\* re.findall: the leftmost non-overlapping matches of the pattern of cat
RECURSIVE FindAll(_, _, _)
FindAll(cat, t, i) ==
    IF i > Len(t) THEN << >>
    ELSE IF MatchEnd(cat, t, i) > 0
    THEN <<SubSeq(t, i, MatchEnd(cat, t, i))>> \o FindAll(cat, t, MatchEnd(cat, t, i) + 1)
    ELSE FindAll(cat, t, i + 1)

\* the mask of an IP address under the configuration
IpMask(ip) == IF desensitizer.keep_subnet THEN KeepSubnetMask(ip) ELSE IpReplacement

\* C6: within one desensitize_text call, every occurrence of the same original
\* value is replaced by the identical mask, in every category: two
\* replacements of one category with the same original have the same mask,
\* which is the one the local mapping records.
C6_SameValueSameMask ==
    Returned =>
        \A c \in CategorySet :
            \A a \in 1..Len(call.events[c]) :
                /\ call.events[c][a][1] \in DOMAIN call.local_mapping[c]
                /\ call.local_mapping[c][call.events[c][a][1]] = call.events[c][a][2]
                /\ \A b \in 1..Len(call.events[c]) :
                       call.events[c][a][1] = call.events[c][b][1]
                           => call.events[c][a][2] = call.events[c][b][2]

\* a call that replaced the same IP address twice, keeping its subnet
C6_Witness ==
    /\ pc = "returned" /\ desensitizer.enabled /\ desensitizer.keep_subnet
    /\ Len(call.events["ip_addresses"]) >= 2
    /\ call.events["ip_addresses"][1] = call.events["ip_addresses"][2]
    /\ call.result # call.text

\* C7: for a text with N distinct IPv4 addresses (the matches of the IP
\* pattern), desensitize_text records exactly those N under ip_addresses, each
\* with its mask, replaces every occurrence (one replacement per match, and
\* none of the N is matched in the output), and desensitize_text applied to
\* the masked output returns it unchanged.
C7_IpCountAndIdempotence ==
    /\ Returned =>
           LET found == FindAll("ip_addresses", call.text, 1)
           IN  /\ DOMAIN call.local_mapping["ip_addresses"] = ToSet(found)
               /\ Len(call.events["ip_addresses"]) = Len(found)
               /\ \A ip \in ToSet(found) : call.local_mapping["ip_addresses"][ip] = IpMask(ip)
               /\ ToSet(FindAll("ip_addresses", call.result, 1)) \cap ToSet(found) = {}
    /\ (pc = "returned_again" /\ desensitizer.enabled)
           => call.text = first.result /\ call.result = first.result

\* the values of the password-like fields of t: group 2 of every match of
\* every keyword's pattern
PasswordValueAt(keyword, t, j) ==
    SubSeq(t, SkipWhile(t, SkipWhile(t, j + Len(keyword), Whitespace) + 1, Whitespace),
           PasswordMatch(keyword, t, j))

PasswordValues(t) ==
    UNION {{PasswordValueAt(PasswordKeywords[k], t, j) : j \in PasswordStarts(PasswordKeywords[k], t)} :
               k \in 1..Len(PasswordKeywords)}

\* C8: after desensitize_text the output contains none of the sensitive
\* values of the input: no IP address, phone number, IMSI or IMEI that its
\* pattern matches in the input and no value of a password-like field occurs
\* in the masked text.
C8_NoSensitiveValueLeft ==
    (pc = "returned" /\ desensitizer.enabled) =>
        /\ \A c \in {"ip_addresses", "phone_numbers", "imsi", "imei"} :
               \A v \in ToSet(FindAll(c, call.text, 1)) : ~HasSubstring(call.result, v)
        /\ \A v \in PasswordValues(call.text) : ~HasSubstring(call.result, v)

\* a line that holds a value of one of the categories
SensitiveLine(line) ==
    \/ \E c \in {"ip_addresses", "phone_numbers", "imsi", "imei", "urls"} :
           MatchStarts(c, line) # {}
    \/ \E k \in 1..Len(PasswordKeywords) : PasswordStarts(PasswordKeywords[k], line) # {}
    \/ \E k \in 1..Len(CustomerKeywords) : HasSubstring(line, CustomerKeywords[k])

\* C9: desensitize_text preserves the structure of the text: the output has
\* the same number of lines, in the same order, and every line without a
\* sensitive value is identical in the output.
C9_StructurePreserved ==
    (pc = "returned" /\ desensitizer.enabled) =>
        /\ Len(SplitLines(call.result)) = Len(SplitLines(call.text))
        /\ \A n \in 1..Len(SplitLines(call.text)) :
               ~SensitiveLine(SplitLines(call.text)[n])
                   => SplitLines(call.result)[n] = SplitLines(call.text)[n]

\* the cumulative mapping of the instance holds every pair of local_mapping
Accumulated(local_mapping) ==
    \A c \in DOMAIN local_mapping : \A o \in DOMAIN local_mapping[c] :
        /\ c \in DOMAIN desensitizer.mapping
        /\ o \in DOMAIN desensitizer.mapping[c]
        /\ desensitizer.mapping[c][o] = local_mapping[c][o]

\* C17: the mapping of a ConfigDesensitizer instance accumulates across
\* desensitize_text calls: it contains, per category, every original -> masked
\* pair any of the calls returned, and the same original value receives the
\* same mask in every call.
C17_MappingAccumulates ==
    Returned =>
        /\ Accumulated(call.local_mapping)
        /\ pc = "returned_again" =>
               /\ Accumulated(first.local_mapping)
               /\ \A c \in CategorySet :
                      \A o \in (DOMAIN call.local_mapping[c]) \cap (DOMAIN first.local_mapping[c]) :
                          call.local_mapping[c][o] = first.local_mapping[c][o]

\* the counter of category c in the statistics (a category that was never
\* counted has no entry)
ByType(statistics, c) == IF c \in DOMAIN statistics.by_type THEN statistics.by_type[c] ELSE 0

\* the number of entries of category c in a returned mapping
Entries(local_mapping, c) ==
    IF c \in DOMAIN local_mapping THEN Cardinality(DOMAIN local_mapping[c]) ELSE 0

\* C22: after any sequence of desensitize_text calls on one instance
\* total_replacements is the sum of the by_type counters; no counter decreases
\* or is reset between calls; a call adds to each category exactly the number
\* of entries of that category in the mapping it returns; a call on a disabled
\* desensitizer returns the text unchanged with an empty mapping and changes
\* no counter.
C22_StatisticsAccumulate ==
    /\ [](desensitizer.statistics.total_replacements
              = SumOver([c \in CategorySet |-> ByType(desensitizer.statistics, c)], CategorySet))
    /\ [][call' # call =>
              /\ \A c \in CategorySet :
                     /\ ByType(desensitizer'.statistics, c) >= ByType(desensitizer.statistics, c)
                     /\ ByType(desensitizer'.statistics, c)
                            = ByType(desensitizer.statistics, c) + Entries(call'.local_mapping, c)
              /\ DOMAIN desensitizer'.statistics.by_type \subseteq CategorySet
              /\ ~desensitizer.enabled =>
                     /\ call'.result = call'.text
                     /\ call'.local_mapping = EmptyMap
                     /\ desensitizer'.statistics = desensitizer.statistics]_vars

\* two calls on one instance that both replaced something
C22_Witness ==
    /\ pc = "returned_again"
    /\ \E c \in CategorySet : Entries(first.local_mapping, c) > 0
    /\ \E c \in CategorySet : Entries(call.local_mapping, c) > 0
    /\ desensitizer.statistics.total_replacements >= 2

\* C23: the passes run in the order IP, phone, IMSI, IMEI, passwords,
\* customers, URLs and no later pass re-matches text an earlier pass replaced:
\* every key of the returned mapping is a substring of the input text, and the
\* mask an earlier pass wrote is still in the output (no later pass altered or
\* absorbed it).
C23_NoRematchOfReplacedText ==
    (pc = "returned" /\ desensitizer.enabled) =>
        /\ \A c \in CategorySet : \A o \in DOMAIN call.local_mapping[c] :
               HasSubstring(call.text, o)
        /\ \A c \in CategorySet : \A o \in DOMAIN call.local_mapping[c] :
               call.local_mapping[c][o] # << >> => HasSubstring(call.result, call.local_mapping[c][o])

(***************************************************************************)
(* FormatConverter: detect_format, parse_text, convert_to_unified          *)
(* A dict is a sequence of <<key, value>> pairs in insertion order.        *)
(***************************************************************************)
NoValue == << >>

DictHas(d, k) == \E i \in 1..Len(d) : d[i][1] = k

DictGet(d, k) == d[CHOOSE i \in 1..Len(d) : d[i][1] = k][2]

\* d[k] = v: a key that is present keeps its place
DictSet(d, k, v) ==
    IF DictHas(d, k) THEN [i \in 1..Len(d) |-> IF d[i][1] = k THEN <<k, v>> ELSE d[i]]
    ELSE Append(d, <<k, v>>)

\* last position of line whose symbol is not whitespace, 0 if none
RECURSIVE LastNonSpace(_, _)
LastNonSpace(line, i) ==
    IF i < 1 THEN 0 ELSE IF IsSpace(line[i]) THEN LastNonSpace(line, i - 1) ELSE i

\* str.strip()
Strip(line) ==
    IF LastNonSpace(line, Len(line)) = 0 THEN << >>
    ELSE SubSeq(line, SkipWhile(line, 1, Whitespace), LastNonSpace(line, Len(line)))

\* f.read(1024), line 85
SniffChars == 1024

\* str.lower()
LowerText(t) == [i \in 1..Len(t) |-> Lower(t[i])]

\* t.strip().startswith(c) for a symbol c that is not whitespace
StripStartsWith(t, c) ==
    \E i \in 1..Len(t) : t[i] = c /\ \A j \in 1..(i - 1) : IsSpace(t[j])

\* the format named by the content read for sniffing, lines 87-94
SniffFormat(content) ==
    IF StripStartsWith(content, "<") THEN "xml"
    ELSE IF StripStartsWith(content, "{") \/ StripStartsWith(content, "[") THEN "json"
    ELSE IF Contains(content, ":") /\ Contains(content, "-") THEN "yaml"
    ELSE "text"

\* sniffing that reads the whole file
detect_format_WholeFile(f) ==
    CASE LowerText(f.suffix) \in {<<"x", "m", "l">>} -> "xml"
      [] LowerText(f.suffix) \in {<<"j", "s", "o", "n">>} -> "json"
      [] LowerText(f.suffix) \in {<<"y", "a", "m", "l">>, <<"y", "m", "l">>} -> "yaml"
      [] LowerText(f.suffix) \in {<<"i", "n", "i">>, <<"c", "f", "g">>} -> "ini"
      [] LowerText(f.suffix) \in {<<"c", "o", "n", "f">>, <<"c", "o", "n", "f", "i", "g">>} -> "conf"
      [] LowerText(f.suffix) \in {<<"t", "x", "t">>, <<"t", "e", "x", "t">>, <<"l", "o", "g">>} -> "text"
      [] OTHER -> IF ~f.exists THEN "unknown" ELSE SniffFormat(f.content)

\* detect_format, lines 56-97: the lower-cased extension decides; without a
\* known extension the first 1024 characters do; a file that cannot be opened
\* and read is unknown (f.exists: the file exists and can be read)
detect_format(f) ==
    CASE LowerText(f.suffix) \in {<<"x", "m", "l">>} -> "xml"
      [] LowerText(f.suffix) \in {<<"j", "s", "o", "n">>} -> "json"
      [] LowerText(f.suffix) \in {<<"y", "a", "m", "l">>, <<"y", "m", "l">>} -> "yaml"
      [] LowerText(f.suffix) \in {<<"i", "n", "i">>, <<"c", "f", "g">>} -> "ini"
      [] LowerText(f.suffix) \in {<<"c", "o", "n", "f">>, <<"c", "o", "n", "f", "i", "g">>} -> "conf"
      [] LowerText(f.suffix) \in {<<"t", "x", "t">>, <<"t", "e", "x", "t">>, <<"l", "o", "g">>} -> "text"
      [] OTHER ->
           IF ~f.exists THEN "unknown"
           ELSE SniffFormat(Slice(f.content, 0, SniffChars))

\* re.match(r'\[([^\]]+)\]', line): group 1, or NoValue
SectionMatch(line) ==
    IF /\ StartsWith(line, 1, <<"[">>)
       /\ SkipUntil(line, 2, {"]"}) >= 3
       /\ SkipUntil(line, 2, {"]"}) <= Len(line)
    THEN SubSeq(line, 2, SkipUntil(line, 2, {"]"}) - 1)
    ELSE NoValue

\* ^([^=]+)=(.+)$ and ^([^:]+):(.+)$: <<key, value>> stripped, or NoValue;
\* p is the position of the first separator
KvAt(line, p) ==
    IF p >= 2 /\ p < Len(line)
    THEN <<Strip(SubSeq(line, 1, p - 1)), Strip(SubSeq(line, p + 1, Len(line)))>>
    ELSE NoValue

\* ^(\S+)\s+(.+)$ on a stripped line; a and b are the ends of \S+ and \s+
KvSpaced(line, a, b) ==
    IF a <= Len(line) /\ b <= Len(line)
    THEN <<SubSeq(line, 1, a - 1), Strip(SubSeq(line, b, Len(line)))>>
    ELSE NoValue

\* kv_patterns, lines 272-289: the first pattern that matches wins
KvMatch(line) ==
    IF KvAt(line, SkipUntil(line, 1, {"="})) # NoValue
    THEN KvAt(line, SkipUntil(line, 1, {"="}))
    ELSE IF KvAt(line, SkipUntil(line, 1, {":"})) # NoValue
    THEN KvAt(line, SkipUntil(line, 1, {":"}))
    ELSE KvSpaced(line, SkipUntil(line, 1, Whitespace),
                  SkipWhile(line, SkipUntil(line, 1, Whitespace), Whitespace))

DefaultSection == <<"d", "e", "f", "a", "u", "l", "t">>

\* if current_section not in parsed_config: parsed_config[current_section] = {}
WithSection(parsed_config, section) ==
    IF DictHas(parsed_config, section) THEN parsed_config
    ELSE Append(parsed_config, <<section, << >> >>)

\* parsed_config[current_section][key] = value
SetItem(parsed_config, section, kv) ==
    DictSet(WithSection(parsed_config, section), section,
            DictSet(DictGet(WithSection(parsed_config, section), section), kv[1], kv[2]))

\* one round of the loop of lines 254-289 on the stripped line
ParseLine(line, st) ==
    IF line = << >> \/ line[1] \in {"#", ";"} THEN st
    ELSE IF SectionMatch(line) # NoValue
    THEN [current_section |-> SectionMatch(line),
          parsed_config |-> WithSection(st.parsed_config, SectionMatch(line))]
    ELSE IF KvMatch(line) # NoValue
    THEN [st EXCEPT !.parsed_config = SetItem(@, st.current_section, KvMatch(line))]
    ELSE st

RECURSIVE ParseLines(_, _, _)
ParseLines(lines, n, st) ==
    IF n > Len(lines) THEN st.parsed_config
    ELSE ParseLines(lines, n + 1, ParseLine(Strip(lines[n]), st))

\* parse_text, lines 243-299: the ConfigStructure without hierarchy and line_mapping
parse_text(content) ==
    [format |-> "text",
     content |-> ParseLines(SplitLines(content), 1,
                            [current_section |-> DefaultSection, parsed_config |-> << >>])]

\* _normalize_config, lines 466-475, on the two-level dict of parse_text: the
\* leaves are str already and str(config) returns them
_normalize_config(config) ==
    [i \in 1..Len(config) |->
        <<config[i][1], [j \in 1..Len(config[i][2]) |-> config[i][2][j]]>>]

\* convert_to_unified, lines 445-464
convert_to_unified(structure) ==
    [metadata |-> [original_format |-> structure.format,
                   sections |-> [i \in 1..Len(structure.content) |-> structure.content[i][1]]],
     config |-> _normalize_config(structure.content)]

\* the formats whose parser is modelled: FormatConverter.process_file hands
\* TEXT and CONF to parse_text (lines 524-525)
TextFormats == {"text", "conf"}

\* FormatConverter.process_file, lines 499-530, for a file of a text format
converter_process_file(f) == convert_to_unified(parse_text(f.content))

(***************************************************************************)
(* ConfigPreProcessor                                                      *)
(***************************************************************************)
\* "  " * indent
RECURSIVE IndentStr(_)
IndentStr(indent) == IF indent = 0 THEN << >> ELSE <<" ", " ">> \o IndentStr(indent - 1)

\* f"{indent_str}{key} = {value}"
LeafLine(indent, kv) == IndentStr(indent) \o kv[1] \o <<" ", "=", " ">> \o kv[2]

\* dict_to_text(value, indent + 1) of a section: '' for an empty dict
SectionBody(items, indent) == JoinLines([j \in 1..Len(items) |-> LeafLine(indent, items[j])])

\* _unified_to_text, lines 297-317, on unified['config'] as parse_text builds
\* it: per section the line [name], then the text of its dict
_unified_to_text(unified) ==
    JoinLines(Concat([i \in 1..Len(unified.config) |->
                         << <<"[">> \o unified.config[i][1] \o <<"]">>,
                            SectionBody(unified.config[i][2], 1) >>]))

\* MetadataExtractor.extract of preprocessor.py, lines 368-403, with empty
\* pattern lists: the statistics
CountLines(lines, P(_)) == Cardinality({n \in 1..Len(lines) : P(Strip(lines[n]))})

NonEmpty(line) == line # << >>

IsComment(line) == StartsWith(line, 1, <<"#">>)

extract(content) ==
    [statistics |->
        [total_lines |-> Len(SplitLines(content)),
         non_empty_lines |-> CountLines(SplitLines(content), NonEmpty),
         comment_lines |-> CountLines(SplitLines(content), IsComment),
         size_bytes |-> ByteLen(content)]]

\* the path of an artifact of a file: output_dir / stem / f"{stem}_{kind}"
ArtifactPath(f, kind) == <<f.stem, kind>>

\* the locals of process_file, lines 101-104, and what it wrote so far;
\* content is NoValue while the local `content' is unbound; desensitizer_input
\* and chunker_input (ghosts) are the texts handed to desensitize_text and to
\* chunk_text
StartFrame(self, des) ==
    [ok |-> TRUE, errors |-> << >>, processed_files |-> << >>, metadata |-> NoValue,
     original_format |-> "unknown", unified |-> NoValue, content |-> NoValue,
     chunks |-> NoValue, written |-> EmptyMap, desensitizer_input |-> NoValue,
     chunker_input |-> NoValue, raised |-> << >>,
     desensitize_mapping |-> NoValue, statistics |-> self.statistics, desensitizer |-> des]

\* the exceptions raised inside the try block: the class and the words of
\* the message.  Line 109 (the message is written in Chinese in the source)
FileNotFoundError(f) ==
    [category |-> "FileNotFoundError", message |-> <<"file", "does", "not", "exist:", f.path>>]

\* line 192: the local `content' is read before any assignment
UnboundLocalError ==
    [category |-> "UnboundLocalError",
     message |-> <<"cannot", "access", "local", "variable", "'content'", "where", "it", "is",
                   "not", "associated", "with", "a", "value">>]

\* range() with a step of zero, chunker.py line 208
ValueError ==
    [category |-> "ValueError",
     message |-> <<"range()", "arg", "3", "must", "not", "be", "zero">>]

\* open(report_file, 'w') on a full disk, line 217
OSError ==
    [category |-> "OSError",
     message |-> <<"[Errno", "28]", "No", "space", "left", "on", "device">>]

\* str(e), line 247: the message of the exception
str(e) == e.message

\* an except clause that does not record the error
Raise_Silent(st, exc) == [st EXCEPT !.ok = FALSE]

\* an exception of class exc leaves the try block: lines 244-246
Raise(st, exc) ==
    [st EXCEPT !.ok = FALSE, !.errors = Append(@, str(exc)), !.raised = Append(@, exc.category)]

\* an artifact is written and listed
Write(st, f, kind, data) ==
    [st EXCEPT !.processed_files = Append(@, ArtifactPath(f, kind)),
               !.written = MapPut(@, kind, data)]

\* lines 107-109
CheckExists(f, st) == IF f.exists THEN st ELSE Raise(st, FileNotFoundError(f))

\* Step 1, lines 119-135
ConvertStep(f, flags, st) ==
    IF ~st.ok THEN st
    ELSE IF flags.convert_format
    THEN Write([st EXCEPT !.unified = <<converter_process_file(f)>>,
                          !.original_format =
                              converter_process_file(f).metadata.original_format],
               f, "unified", converter_process_file(f))
    ELSE [st EXCEPT !.content = <<f.content>>,
                    !.original_format = detect_format(f),
                    !.unified = <<[config |-> << <<"content", f.content>> >>]>>]

\* Step 2, lines 137-150: extracted from the text of the file
MetadataStep(f, flags, st) ==
    IF ~st.ok \/ ~flags.extract_metadata THEN st
    ELSE Write([st EXCEPT !.metadata = <<extract(f.content)>>],
               f, "metadata", extract(f.content))

\* the instance after desensitize_text returned r: _update_statistics ran
\* unless the desensitizer is disabled (line 70-71 returns before it)
AfterDesensitize(des, r) ==
    IF des.enabled
    THEN [des EXCEPT !.statistics = _update_statistics(@, r.local_mapping)]
    ELSE des

\* lines 162-181 with the text `content' handed to the desensitizer and what
\* desensitize_text returned for it
Desensitized(f, st, content, r) ==
    Write(Write([st EXCEPT !.content = <<r.result>>,
                           !.desensitizer_input = <<content>>,
                           !.desensitize_mapping = <<r.local_mapping>>,
                           !.desensitizer = AfterDesensitize(@, r)],
                f, "desensitized", r.result),
          f, "desensitize_mapping", r.local_mapping)

DesensitizeContent(f, st, content) ==
    Desensitized(f, st, content, desensitize_text(st.desensitizer, content))

\* Step 3, lines 152-185: with convert_format the text is rebuilt from the
\* unified document, otherwise it is read from the file
DesensitizeStep(f, flags, st) ==
    IF ~st.ok THEN st
    ELSE IF flags.desensitize
    THEN DesensitizeContent(f, st, IF flags.convert_format
                                      THEN _unified_to_text(st.unified[1])
                                      ELSE f.content)
    ELSE IF ~flags.convert_format THEN [st EXCEPT !.content = <<f.content>>]
    ELSE st

\* lines 190-198 with the chunks chunk_text returned
Chunked(f, st, cs) ==
    Write([st EXCEPT !.chunks = <<cs>>,
                     !.statistics.chunks_created = @ + Len(cs)],
          f, "chunks", cs)

\* Step 4, lines 187-198: `content' is unbound when the file was converted
\* and not desensitized
ChunkStep(self, f, flags, st) ==
    IF ~st.ok \/ ~flags.chunk THEN st
    ELSE IF st.content = NoValue THEN Raise(st, UnboundLocalError)
    ELSE IF chunk_text_raises(self.chunker) THEN Raise(st, ValueError)
    ELSE Chunked(f, [st EXCEPT !.chunker_input = st.content],
                 chunk_text(self.chunker, st.content[1]))

\* _generate_report, lines 202-211 and 319-325, without the timestamp
Report(f, flags, st) ==
    [file_path |-> f.path, original_format |-> st.original_format,
     metadata |-> st.metadata, processed_files |-> st.processed_files,
     statistics |-> [chunks_created |-> IF flags.chunk THEN Len(st.chunks[1]) ELSE 0,
                     desensitization |-> IF flags.desensitize
                                         THEN <<st.desensitizer.statistics>> ELSE NoValue]]

\* Step 5 and lines 216-224: open(report_file, 'w') raises OSError when the
\* report cannot be written
ReportStep(f, flags, st) ==
    IF ~st.ok THEN st
    ELSE IF ~f.report_writable THEN Raise(st, OSError)
    ELSE Write([st EXCEPT !.statistics.files_processed = @ + 1],
               f, "report", Report(f, flags, st))

\* the ProcessingResult of lines 233-242 or 248-257; its statistics field is
\* the dict self.statistics itself (lines 240, 254): the field holds the
\* reference and its content is read from the instance; flags, written,
\* raised, desensitizer_input, chunker_input, desensitize_mapping and
\* statistics_returned (the content of the dict when the call returned) are
\* ghosts; processing_time stands for the seconds elapsed
Result(f, flags, st) ==
    [success |-> st.ok, file_path |-> f.path,
     original_format |-> IF st.ok THEN st.original_format ELSE "unknown",
     processed_files |-> st.processed_files, metadata |-> st.metadata,
     errors |-> st.errors, processing_time |-> "elapsed", raised |-> st.raised,
     statistics |-> "self.statistics", statistics_returned |-> st.statistics,
     flags |-> flags, written |-> st.written,
     desensitizer_input |-> st.desensitizer_input,
     chunker_input |-> st.chunker_input,
     desensitize_mapping |-> st.desensitize_mapping]

\* process_file, lines 83-257: the result, and the statistics and the
\* desensitizer the call leaves behind
Returned_process_file(f, flags, st) ==
    [result |-> Result(f, flags, st), statistics |-> st.statistics,
     desensitizer |-> st.desensitizer]

\* process_file with the metadata step moved behind the desensitization step
process_file_MetadataLate(self, f, flags) ==
    Returned_process_file(f, flags,
        ReportStep(f, flags,
            ChunkStep(self, f, flags,
                MetadataStep(f, flags,
                    DesensitizeStep(f, flags,
                        ConvertStep(f, flags,
                            CheckExists(f, StartFrame(self, self.desensitizer))))))))

process_file(self, f, flags) ==
    Returned_process_file(f, flags,
        ReportStep(f, flags,
            ChunkStep(self, f, flags,
                DesensitizeStep(f, flags,
                    MetadataStep(f, flags,
                        ConvertStep(f, flags,
                            CheckExists(f, StartFrame(self, self.desensitizer))))))))

\* the defaults of the keyword arguments of process_file, lines 84-87
DefaultFlags ==
    [desensitize |-> TRUE, convert_format |-> TRUE, chunk |-> TRUE, extract_metadata |-> TRUE]

\* the instance after a process_file call returned r
AfterProcessFile(self, r) ==
    [self EXCEPT !.statistics = r.statistics, !.desensitizer = r.desensitizer]

\* a loop body that leaves out every file after one whose processing failed
DirStep_StopOnFailure(self, rs, entry) ==
    IF ~entry.is_file \/ (rs # << >> /\ ~rs[Len(rs)].success)
    THEN [self |-> self, results |-> rs]
    ELSE LET r == process_file(self, entry.file, DefaultFlags)
         IN  [self |-> AfterProcessFile(self, r), results |-> Append(rs, r.result)]

\* the body of the loop of process_directory, lines 286-290, for one entry: an
\* entry that is a regular file is processed with the default flags and its
\* result appended
DirStep(self, rs, entry) ==
    IF ~entry.is_file
    THEN [self |-> self, results |-> rs]
    ELSE LET r == process_file(self, entry.file, DefaultFlags)
         IN  [self |-> AfterProcessFile(self, r), results |-> Append(rs, r.result)]

\* _generate_summary_report, lines 327-352, without the times and sizes
_generate_summary_report(rs) ==
    [total_files |-> Len(rs),
     successful |-> Cardinality({k \in 1..Len(rs) : rs[k].success}),
     failed |-> Cardinality({k \in 1..Len(rs) : ~rs[k].success}),
     files |-> [k \in 1..Len(rs) |->
                   [file |-> rs[k].file_path, success |-> rs[k].success,
                    format |-> rs[k].original_format, errors |-> rs[k].errors]]]

(***************************************************************************)
(* Inputs of the preprocessor: files of up to MaxFileLines lines           *)
(***************************************************************************)
FileLineVocabulary ==
    { <<"[", "s", "]">>,
      <<"i", "p", "=", "1", ".", "2", ".", "3", ".", "4">>,
      <<"k", "e", "y", ":", " ", "v">>,
      <<"#", "c">>,
      << >> }

FileContents == {JoinLines(ls) : ls \in SeqsOf(FileLineVocabulary, 1, MaxFileLines)}

\* a path without a file
MissingFile ==
    [path |-> "b.txt", stem |-> "b", suffix |-> <<"t", "x", "t">>, exists |-> FALSE, content |-> << >>,
     report_writable |-> TRUE]

\* the files that exist: their report can be written, or (one-line files) the
\* open of the report file fails
Files ==
    {[path |-> "a.txt", stem |-> "a", suffix |-> <<"t", "x", "t">>, exists |-> TRUE, content |-> c,
      report_writable |-> TRUE] : c \in FileContents}
    \cup {[path |-> "a.txt", stem |-> "a", suffix |-> <<"t", "x", "t">>, exists |-> TRUE,
           content |-> JoinLines(<<l>>), report_writable |-> FALSE] : l \in FileLineVocabulary}

\* the keyword arguments of process_file
Flags == [desensitize : BOOLEAN, convert_format : BOOLEAN, chunk : BOOLEAN,
          extract_metadata : BOOLEAN]

(***************************************************************************)
(* Preprocessor driver: two process_file calls on one instance, each on the *)
(* file or on the path without a file                                      *)
(***************************************************************************)
InitPreProcessor ==
    /\ pc = "ready"
    /\ file \in {f \in Files : detect_format(f) \in TextFormats}
    /\ preprocessor = NewPreProcessor
    /\ results = << >>
    /\ directory = NoDirectory
    /\ summary = << >>
    /\ detected = << >>
    /\ extracted = << >>
    /\ desensitizer = NewDesensitizer(TRUE, FALSE, FALSE)
    /\ chunker = DefaultChunker
    /\ call = NoCall
    /\ first = NoCall
    /\ text = << >>
    /\ chunks = << >>
    /\ merged = << >>

ProcessFile ==
    /\ pc \in {"ready", "processed"}
    /\ \E f \in {file, MissingFile}, flags \in Flags :
           \E r \in {process_file([statistics |-> preprocessor.statistics,
                                   desensitizer |-> desensitizer, chunker |-> chunker],
                                  f, flags)} :
               /\ results' = Append(results, r.result)
               /\ preprocessor' = [preprocessor EXCEPT !.statistics = r.statistics]
               /\ desensitizer' = r.desensitizer
    /\ pc' = IF pc = "ready" THEN "processed" ELSE "processed_again"
    /\ UNCHANGED <<file, chunker, text, chunks, merged, call, first,
                 directory, summary, detected, extracted>>

NextPreProcessor == ProcessFile

SpecPreProcessor == InitPreProcessor /\ [][NextPreProcessor]_vars

(***************************************************************************)
(* Properties of the preprocessor                                          *)
(***************************************************************************)
\* two calls that differ only in convert_format
DifferOnlyInConvertFormat(f, g) ==
    /\ f.convert_format # g.convert_format
    /\ f.desensitize = g.desensitize
    /\ f.chunk = g.chunk
    /\ f.extract_metadata = g.extract_metadata

\* C10: in process_file the text handed to the desensitizer is always the
\* text of the file, never a text derived from the unified document; hence two
\* process_file calls on the same file that differ only in convert_format
\* write the same desensitized artifact and the same desensitization mapping.
C10_DesensitizeOriginalText ==
    /\ \A k \in 1..Len(results) :
           (results[k].file_path = file.path /\ results[k].desensitizer_input # NoValue)
               => results[k].desensitizer_input[1] = file.content
    /\ (/\ pc = "processed_again"
        /\ results[1].file_path = file.path /\ results[2].file_path = file.path
        /\ results[1].flags.desensitize
        /\ DifferOnlyInConvertFormat(results[1].flags, results[2].flags))
           => /\ results[1].written["desensitized"] = results[2].written["desensitized"]
              /\ results[1].desensitize_mapping = results[2].desensitize_mapping

\* C11: in process_file with chunk=true on an existing file the chunker
\* receives the desensitized text when desensitize=true and the text of the
\* file when desensitize=false, for both values of convert_format.
C11_ChunkerInput ==
    \A k \in 1..Len(results) :
        (results[k].flags.chunk /\ results[k].file_path = file.path /\ file.exists)
            => /\ results[k].chunker_input # NoValue
               /\ results[k].chunker_input[1] =
                      IF results[k].flags.desensitize
                      THEN results[k].written["desensitized"]
                      ELSE file.content

\* the artifacts of the selected steps, in the order of the steps, and the report
ExpectedArtifacts(flags) ==
    (IF flags.convert_format THEN <<"unified">> ELSE << >>)
    \o (IF flags.extract_metadata THEN <<"metadata">> ELSE << >>)
    \o (IF flags.desensitize THEN <<"desensitized", "desensitize_mapping">> ELSE << >>)
    \o (IF flags.chunk THEN <<"chunks">> ELSE << >>)
    \o <<"report">>

\* the kinds of the artifacts a result lists, in order
ArtifactKinds(result) ==
    [j \in 1..Len(result.processed_files) |-> result.processed_files[j][2]]

\* C12: for each of the 16 combinations of the flags, process_file on an
\* existing, readable, parseable file returns success=true and processed_files
\* lists exactly the artifacts of the selected steps followed by the report.
C12_SelectedArtifacts ==
    \A k \in 1..Len(results) :
        (results[k].file_path = file.path /\ file.exists)
            => /\ results[k].success
               /\ ArtifactKinds(results[k]) = ExpectedArtifacts(results[k].flags)

\* the call process_file returned from in this step
LastResult == results'[Len(results')]

\* C13: process_file on a path that does not exist returns success=false, a
\* non-empty errors list and an empty processed_files list, and leaves the
\* cumulative statistics of the ConfigPreProcessor unchanged.
C13_MissingPath ==
    [][(Len(results') = Len(results) + 1 /\ LastResult.file_path = MissingFile.path)
           => /\ ~LastResult.success
              /\ LastResult.errors # << >>
              /\ LastResult.processed_files = << >>
              /\ preprocessor'.statistics = preprocessor.statistics]_vars

\* a call on the missing path after a call that succeeded and created chunks
C13_Witness ==
    /\ pc = "processed_again"
    /\ results[1].success /\ results[1].flags.chunk
    /\ results[2].file_path = MissingFile.path
    /\ ~results[2].success /\ results[2].raised = <<"FileNotFoundError">>
    /\ preprocessor.statistics.files_processed = 1
    /\ preprocessor.statistics.chunks_created > 0

\* the number of chunks the call of a result produced
ChunksProduced(result) ==
    IF "chunks" \in DOMAIN result.written THEN Len(result.written["chunks"]) ELSE 0

\* the chunks produced by the successful calls among the first n
RECURSIVE ChunksOfSuccessful(_)
ChunksOfSuccessful(n) ==
    IF n = 0 THEN 0
    ELSE ChunksOfSuccessful(n - 1)
             + (IF results[n].success THEN ChunksProduced(results[n]) ELSE 0)

\* C15: after any sequence of process_file calls on one ConfigPreProcessor,
\* statistics.files_processed is the number of calls that returned
\* success=true and statistics.chunks_created the number of chunks those calls
\* produced: a call that returns success=false changes neither counter.
C15_CountersCountSuccesses ==
    /\ preprocessor.statistics.files_processed =
           Cardinality({k \in 1..Len(results) : results[k].success})
    /\ preprocessor.statistics.chunks_created = ChunksOfSuccessful(Len(results))

\* C16: the cumulative statistics include the desensitization count: after
\* process_file calls with desensitize=true, statistics.desensitization_count
\* is the total number of replacements the desensitizer recorded over those
\* calls.
C16_DesensitizationCount ==
    (\A k \in 1..Len(results) : results[k].success)
        => preprocessor.statistics.desensitization_count
               = desensitizer.statistics.total_replacements

(***************************************************************************)
(* Directory driver: process_directory on a directory                      *)
(***************************************************************************)
\* what rglob(pattern) can enumerate: regular files that process (two of them
\* with the same stem), regular files whose report cannot be written, and a
\* subdirectory
EntryVocabulary ==
    { [is_file |-> TRUE,
       file |-> [path |-> "x.txt", stem |-> "x", suffix |-> <<"t", "x", "t">>, exists |-> TRUE,
                 content |-> <<"i", "p", "=", "1", ".", "2", ".", "3", ".", "4">>,
                 report_writable |-> TRUE]],
      [is_file |-> TRUE,
       file |-> [path |-> "y.conf", stem |-> "y", suffix |-> <<"c", "o", "n", "f">>, exists |-> TRUE,
                 content |-> <<"[", "s", "]", "\n", "k", "e", "y", ":", " ", "v">>,
                 report_writable |-> TRUE]],
      [is_file |-> TRUE,
       file |-> [path |-> "u.txt", stem |-> "u", suffix |-> <<"t", "x", "t">>, exists |-> TRUE,
                 content |-> <<"#", "c">>, report_writable |-> FALSE]],
      [is_file |-> TRUE,
       file |-> [path |-> "w.log", stem |-> "w", suffix |-> <<"l", "o", "g">>, exists |-> TRUE,
                 content |-> << >>, report_writable |-> FALSE]],
      [is_file |-> TRUE,
       file |-> [path |-> "x.conf", stem |-> "x", suffix |-> <<"c", "o", "n", "f">>, exists |-> TRUE,
                 content |-> <<"k", "=", "v">>, report_writable |-> TRUE]],
      [is_file |-> FALSE,
       file |-> [path |-> "sub", stem |-> "sub", suffix |-> << >>, exists |-> TRUE,
                 content |-> << >>, report_writable |-> TRUE]] }

\* an enumeration lists a path once
Enumerations ==
    {es \in SeqsOf(EntryVocabulary, 0, MaxEntries) :
         \A i, j \in 1..Len(es) : i # j => es[i] # es[j]}

Directories ==
    {[exists |-> TRUE, entries |-> es, walked |-> 0] : es \in Enumerations} \cup {NoDirectory}

InitDirectory ==
    /\ pc = "ready"
    /\ directory \in Directories
    /\ summary = << >>
    /\ results = << >>
    /\ preprocessor = NewPreProcessor
    /\ desensitizer = NewDesensitizer(TRUE, FALSE, FALSE)
    /\ chunker = DefaultChunker
    /\ file = NoFile
    /\ call = NoCall
    /\ first = NoCall
    /\ text = << >>
    /\ chunks = << >>
    /\ merged = << >>
    /\ detected = << >>
    /\ extracted = << >>

\* process_directory, lines 286-290: one turn of the loop, on the next entry
\* of the enumeration (directory.walked entries are behind)
ProcessEntry ==
    /\ pc \in {"ready", "walking"}
    /\ directory.exists
    /\ directory.walked < Len(directory.entries)
    /\ \E r \in {DirStep([statistics |-> preprocessor.statistics,
                           desensitizer |-> desensitizer, chunker |-> chunker],
                          results, directory.entries[directory.walked + 1])} :
           /\ results' = r.results
           /\ preprocessor' = [preprocessor EXCEPT !.statistics = r.self.statistics]
           /\ desensitizer' = r.self.desensitizer
    /\ directory' = [directory EXCEPT !.walked = @ + 1]
    /\ pc' = "walking"
    /\ UNCHANGED <<summary, file, chunker, text, chunks, merged, call, first, detected,
                   extracted>>

\* process_directory, lines 292-295: after the loop the summary is written and
\* the results are returned
WriteSummary ==
    /\ pc \in {"ready", "walking"}
    /\ directory.exists
    /\ directory.walked = Len(directory.entries)
    /\ summary' = <<_generate_summary_report(results)>>
    /\ pc' = "walked"
    /\ UNCHANGED <<directory, results, preprocessor, desensitizer, file, chunker, text,
                   chunks, merged, call, first, detected, extracted>>

\* lines 274-276: a directory that does not exist raises ValueError
ProcessDirectoryRaises ==
    /\ pc = "ready"
    /\ ~directory.exists
    /\ pc' = "raised"
    /\ UNCHANGED <<directory, summary, results, preprocessor, desensitizer, file, chunker,
                   text, chunks, merged, call, first, detected, extracted>>

NextDirectory == ProcessEntry \/ WriteSummary \/ ProcessDirectoryRaises

SpecDirectory == InitDirectory /\ [][NextDirectory]_vars

\* the entries of the directory that are regular files, in enumeration order
RegularFiles == SelectSeq(directory.entries, LAMBDA e : e.is_file)

\* C14: process_directory returns exactly one ProcessingResult per matching
\* regular file, in enumeration order, also for the files after one whose
\* processing failed, and the summary it writes has
\* successful + failed = total_files = number of results.
C14_OneResultPerFile ==
    pc = "walked" =>
        /\ Len(results) = Len(RegularFiles)
        /\ \A k \in 1..Len(results) : results[k].file_path = RegularFiles[k].file.path
        /\ summary[1].total_files = Len(results)
        /\ summary[1].successful + summary[1].failed = summary[1].total_files
        /\ \A k \in 1..Len(results) : summary[1].files[k].file = results[k].file_path

\* a walk over a subdirectory and two files, where the file after the one
\* whose processing failed was processed
C14_Witness ==
    /\ pc = "walked"
    /\ Len(directory.entries) = 3 /\ Len(results) = 2
    /\ ~results[1].success /\ results[2].success
    /\ summary[1].successful = 1 /\ summary[1].failed = 1

\* the artifacts in the order of the stages that write them
StageOrder ==
    <<"unified", "metadata", "desensitized", "desensitize_mapping", "chunks", "report">>

\* the place of an artifact kind in StageOrder
StageRank(kind) == CHOOSE n \in 1..Len(StageOrder) : StageOrder[n] = kind

\* C20: within one process_file call the stages run in the fixed order format
\* conversion, metadata extraction, desensitization, chunking, report assembly:
\* the artifacts are listed in processed_files in that order, with the report
\* last, and a stage works on what the selected earlier stages finished (the
\* desensitizer on the converted document, the chunker on the desensitized
\* text, the report on every artifact listed before it).
C20_StageOrder ==
    \A k \in 1..Len(results) :
        LET r == results[k]
            kinds == ArtifactKinds(r)
        IN  /\ \A i \in 1..Len(kinds) : \A j \in (i + 1)..Len(kinds) :
                   StageRank(kinds[i]) < StageRank(kinds[j])
            /\ r.success => (kinds # << >> /\ kinds[Len(kinds)] = "report")
            /\ (\E i \in 1..Len(kinds) : kinds[i] = "report")
                   => /\ kinds[Len(kinds)] = "report"
                      /\ r.written["report"].processed_files
                             = SubSeq(r.processed_files, 1, Len(kinds) - 1)
            /\ (r.flags.convert_format /\ r.desensitizer_input # NoValue)
                   => /\ kinds[1] = "unified"
                      /\ r.desensitizer_input[1] = _unified_to_text(r.written["unified"])
            /\ (r.flags.desensitize /\ r.chunker_input # NoValue)
                   => /\ \E i \in 1..Len(kinds) : kinds[i] = "desensitized"
                      /\ r.chunker_input[1] = r.written["desensitized"]

\* a call with every stage selected that wrote all six artifacts
C20_Witness ==
    \E k \in 1..Len(results) :
        /\ results[k].success
        /\ ArtifactKinds(results[k]) = StageOrder

(***************************************************************************)
(* Format detection driver: detect_format on a path                        *)
(***************************************************************************)
\* n times the symbol c
Repeat(c, n) == [i \in 1..n |-> c]

\* the extensions of the table, in other case, unknown ones and none
SuffixVocabulary ==
    { << >>, <<"x", "m", "l">>, <<"X", "M", "L">>, <<"j", "s", "o", "n">>,
      <<"J", "s", "o", "n">>, <<"y", "a", "m", "l">>, <<"y", "m", "l">>, <<"i", "n", "i">>,
      <<"c", "f", "g">>, <<"c", "o", "n", "f">>, <<"c", "o", "n", "f", "i", "g">>,
      <<"t", "x", "t">>, <<"t", "e", "x", "t">>, <<"l", "o", "g">>, <<"d", "a", "t">> }

\* contents that start like each format, bare and after whitespace, and
\* contents whose deciding symbol is the last one read or the first one not read
DetectContents ==
    << << >>,
       <<"<", "a", ">">>,
       <<" ", "\n", "<", "a", ">">>,
       <<"{", "}">>,
       <<"[", "s", "]">>,
       <<"a", ":", " ", "-">>,
       <<"-", "<", ":">>,
       <<"a", ":", "b">>,
       <<"a", "-", "{">>,
       <<"a", "=", "b">>,
       Repeat(" ", SniffChars - 1) \o <<"<">>,
       Repeat(" ", SniffChars) \o <<"<">>,
       Repeat("a", SniffChars - 2) \o <<":", "-">>,
       Repeat("a", SniffChars - 1) \o <<":", "-">> >>

\* paths with a file that can be read, and paths whose file cannot
DetectFiles ==
    {[path |-> "p", stem |-> "p", suffix |-> sfx, exists |-> e,
      content |-> DetectContents[c], report_writable |-> TRUE] :
         sfx \in SuffixVocabulary, e \in BOOLEAN, c \in 1..Len(DetectContents)}

InitDetect ==
    /\ pc = "ready"
    /\ file \in DetectFiles
    /\ detected = << >>
    /\ directory = NoDirectory
    /\ summary = << >>
    /\ results = << >>
    /\ preprocessor = NewPreProcessor
    /\ desensitizer = NewDesensitizer(TRUE, FALSE, FALSE)
    /\ chunker = DefaultChunker
    /\ call = NoCall
    /\ first = NoCall
    /\ text = << >>
    /\ chunks = << >>
    /\ merged = << >>
    /\ extracted = << >>

DetectFormat ==
    /\ pc = "ready"
    /\ detected' = <<detect_format(file)>>
    /\ pc' = "detected"
    /\ UNCHANGED <<file, directory, summary, results, preprocessor, desensitizer, chunker,
                   call, first, text, chunks, merged, extracted>>

NextDetect == DetectFormat

SpecDetect == InitDetect /\ [][NextDetect]_vars

\* the seven formats
ConfigFormat == {"xml", "json", "yaml", "text", "conf", "ini", "unknown"}

\* the format a recognized extension names
ExtensionFormat ==
    [e \in {<<"x", "m", "l">>, <<"j", "s", "o", "n">>, <<"y", "a", "m", "l">>, <<"y", "m", "l">>,
             <<"i", "n", "i">>, <<"c", "f", "g">>, <<"c", "o", "n", "f">>,
             <<"c", "o", "n", "f", "i", "g">>, <<"t", "x", "t">>, <<"t", "e", "x", "t">>,
             <<"l", "o", "g">>} |->
        CASE e = <<"x", "m", "l">> -> "xml"
          [] e = <<"j", "s", "o", "n">> -> "json"
          [] e \in {<<"y", "a", "m", "l">>, <<"y", "m", "l">>} -> "yaml"
          [] e \in {<<"i", "n", "i">>, <<"c", "f", "g">>} -> "ini"
          [] e \in {<<"c", "o", "n", "f">>, <<"c", "o", "n", "f", "i", "g">>} -> "conf"
          [] OTHER -> "text"]

\* the first symbol of t that is not whitespace, among the first n symbols
LeadingSymbol(t, n) ==
    LET seen == {i \in 1..Min(n, Len(t)) : ~IsSpace(t[i])}
    IN  IF seen = {} THEN << >> ELSE <<t[CHOOSE i \in seen : \A j \in seen : i <= j]>>

\* the symbol c is among the first n symbols of t
Within(t, n, c) == \E i \in 1..Min(n, Len(t)) : t[i] = c

\* C18: detect_format is total and extension-first: it returns one of the
\* seven formats; a recognized extension (in any case) decides whatever the
\* content is; otherwise a file that cannot be read yields unknown and for a
\* readable one the first 1024 characters decide: leading '<' is xml, leading
\* '{' or '[' is json, both ':' and '-' present is yaml, anything else text.
C18_DetectFormat ==
    pc = "detected" =>
        /\ detected[1] \in ConfigFormat
        /\ LowerText(file.suffix) \in DOMAIN ExtensionFormat
               => detected[1] = ExtensionFormat[LowerText(file.suffix)]
        /\ (LowerText(file.suffix) \notin DOMAIN ExtensionFormat /\ ~file.exists)
               => detected[1] = "unknown"
        /\ (LowerText(file.suffix) \notin DOMAIN ExtensionFormat /\ file.exists)
               => detected[1] =
                      IF LeadingSymbol(file.content, 1024) = <<"<">> THEN "xml"
                      ELSE IF LeadingSymbol(file.content, 1024) \in {<<"{">>, <<"[">>}
                      THEN "json"
                      ELSE IF Within(file.content, 1024, ":") /\ Within(file.content, 1024, "-")
                      THEN "yaml"
                      ELSE "text"

\* a file without a recognized extension whose 1025th character is the first
\* that is not whitespace: detected as text
C18_Witness ==
    /\ pc = "detected"
    /\ file.exists /\ file.suffix = <<"d", "a", "t">>
    /\ Len(file.content) > SniffChars
    /\ file.content[SniffChars + 1] = "<"
    /\ detected = <<"text">>

(***************************************************************************)
(* MetadataExtractor of metadata_extractor.py: statistics and complexity   *)
(***************************************************************************)
\* A content is held as its lines in order, consecutive equal lines folded
\* into one block [line, count] with count >= 1: content.split('\n') is the
\* blocks unfolded.  No line holds a newline, so a substring of the content
\* that has no newline lies within one line.  Every symbol is one byte.
Block(line, count) == [line |-> line, count |-> count]

RECURSIVE SumSeq(_)
SumSeq(ns) == IF ns = << >> THEN 0 ELSE Head(ns) + SumSeq(Tail(ns))

\* sum over the lines of the content of per_line[b], the value for one line of block b
SumLines(content, per_line) ==
    SumSeq([b \in 1..Len(content) |-> content[b].count * per_line[b]])

\* the number of symbols of the line that are in S
CountIn(line, S) == Cardinality({i \in 1..Len(line) : line[i] \in S})

Letters == {UpperCase[k] : k \in 1..Len(UpperCase)} \cup {LowerCase[k] : k \in 1..Len(LowerCase)}

\* 1024 * 1024, line 328
BytesPerMb == 1048576

\* round(size_bytes / (1024 * 1024), 2) in hundredths: round half to even on the exact quotient
RoundHundredths(size_bytes) ==
    LET whole == size_bytes \div BytesPerMb
        scaled == (size_bytes % BytesPerMb) * 100
        part == scaled \div BytesPerMb
        rest == scaled % BytesPerMb
    IN  100 * whole + (IF 2 * rest > BytesPerMb THEN part + 1
                       ELSE IF 2 * rest < BytesPerMb THEN part
                       ELSE part + (part % 2))

\* lines 336-341: the line is counted as a configuration item
IsConfigItem(line) ==
    /\ Strip(line) # << >>
    /\ ~StartsWith(Strip(line), 1, <<"#">>)
    /\ Contains(Strip(line), "=") \/ Contains(Strip(line), ":")

\* lines 336-338, 344: the line is counted as a section
IsSection(line) ==
    /\ Strip(line) # << >>
    /\ ~StartsWith(Strip(line), 1, <<"#">>)
    /\ StartsWith(Strip(line), 1, <<"[">>)
    /\ Strip(line)[Len(Strip(line))] = "]"

\* _extract_statistics, lines 318-358; size_mb is held in hundredths
_extract_statistics(content) ==
    LET total_lines == SumLines(content, [b \in 1..Len(content) |-> 1])
        size_bytes == SumLines(content, [b \in 1..Len(content) |-> Len(content[b].line)])
                          + (total_lines - 1)
    IN  [total_lines |-> total_lines,
         non_empty_lines |->
             SumLines(content, [b \in 1..Len(content) |->
                 IF Strip(content[b].line) # << >> THEN 1 ELSE 0]),
         comment_lines |->
             SumLines(content, [b \in 1..Len(content) |->
                 IF StartsWith(Strip(content[b].line), 1, <<"#">>) THEN 1 ELSE 0]),
         size_bytes |-> size_bytes,
         size_mb |-> RoundHundredths(size_bytes),
         config_items |->
             SumLines(content, [b \in 1..Len(content) |->
                 IF IsConfigItem(content[b].line) THEN 1 ELSE 0]),
         sections |->
             SumLines(content, [b \in 1..Len(content) |->
                 IF IsSection(content[b].line) THEN 1 ELSE 0]),
         character_stats |->
             [alphabetic |->
                  SumLines(content, [b \in 1..Len(content) |-> CountIn(content[b].line, Letters)]),
              numeric |->
                  SumLines(content, [b \in 1..Len(content) |-> CountIn(content[b].line, Digits)]),
              whitespace |->
                  SumLines(content, [b \in 1..Len(content) |->
                      CountIn(content[b].line, Whitespace)]) + (total_lines - 1),
              special |->
                  SumLines(content, [b \in 1..Len(content) |->
                      Len(content[b].line)
                          - CountIn(content[b].line, Letters \cup Digits \cup Whitespace)])]]

\* content.count('AMF') + content.count('SMF') + content.count('UPF'), line 387
NfCount(content) ==
    SumLines(content, [b \in 1..Len(content) |->
        CountOccurrences(content[b].line, <<"A", "M", "F">>, 1)
            + CountOccurrences(content[b].line, <<"S", "M", "F">>, 1)
            + CountOccurrences(content[b].line, <<"U", "P", "F">>, 1)])

\* len(line) - len(line.lstrip()), line 395
Indent(line) == SkipWhile(line, 1, Whitespace) - 1

\* lines 393-396
MaxIndent(content) ==
    LET indents == {Indent(content[b].line) : b \in 1..Len(content)} \cup {0}
    IN  CHOOSE m \in indents : \A n \in indents : n <= m

\* lines 405-410
LevelOf(score) == IF score >= 50 THEN "high" ELSE IF score >= 20 THEN "medium" ELSE "low"

\* the factor and its score, or nothing
Factor(cond, name, points) == IF cond THEN <<[name |-> name, points |-> points]>> ELSE << >>

\* _assess_complexity with the scores of the two config_items thresholds exchanged
_assess_complexity_Swapped(content, statistics) ==
    LET found ==
            (IF statistics.size_mb > 10 * 100 THEN Factor(TRUE, "large_file_size", 30)
             ELSE Factor(statistics.size_mb > 1 * 100, "medium_file_size", 10))
         \o (IF statistics.config_items > 1000 THEN Factor(TRUE, "many_config_items", 10)
             ELSE Factor(statistics.config_items > 100, "moderate_config_items", 30))
         \o Factor((\E b \in 1..Len(content) :
                        HasSubstring(content[b].line, <<"5", "g", "c", "_", "i", "n", "f", "o">>))
                       /\ NfCount(content) > 10,
                   "multiple_network_functions", 20)
         \o Factor(MaxIndent(content) > 20, "deep_nesting", 15)
        score == SumSeq([k \in 1..Len(found) |-> found[k].points])
    IN  [level |-> LevelOf(score),
         score |-> score,
         factors |-> [k \in 1..Len(found) |-> found[k].name]]

\* _assess_complexity, lines 360-416
_assess_complexity(content, statistics) ==
    LET found ==
            (IF statistics.size_mb > 10 * 100 THEN Factor(TRUE, "large_file_size", 30)
             ELSE Factor(statistics.size_mb > 1 * 100, "medium_file_size", 10))
         \o (IF statistics.config_items > 1000 THEN Factor(TRUE, "many_config_items", 30)
             ELSE Factor(statistics.config_items > 100, "moderate_config_items", 10))
         \o Factor((\E b \in 1..Len(content) :
                        HasSubstring(content[b].line, <<"5", "g", "c", "_", "i", "n", "f", "o">>))
                       /\ NfCount(content) > 10,
                   "multiple_network_functions", 20)
         \o Factor(MaxIndent(content) > 20, "deep_nesting", 15)
        score == SumSeq([k \in 1..Len(found) |-> found[k].points])
    IN  [level |-> LevelOf(score),
         score |-> score,
         factors |-> [k \in 1..Len(found) |-> found[k].name]]

\* MetadataExtractor.extract, lines 75-123: the statistics and complexity entries
MetadataExtractor_extract(content) ==
    [statistics |-> _extract_statistics(content),
     complexity |-> _assess_complexity(content, _extract_statistics(content))]

(***************************************************************************)
(* Complexity driver: extract, append config-item lines, extract again    *)
(***************************************************************************)
\* the most blocks a base text has
MaxBlocks == 2

NfLine == <<"A", "M", "F", " ", "S", "M", "F", " ", "U", "P", "F">>

\* an empty text, a comment, items just below a threshold, the 5gc_info word,
\* network functions, a deep indentation, more than 1 MB and more than 10 MB
BaseBlocks ==
    { Block(<< >>, 1),
      Block(<<"#", "k", "=", "v">>, 1),
      Block(<<"k", "=", "v">>, 100),
      Block(<<"[", "5", "g", "c", "_", "i", "n", "f", "o", "]">>, 1),
      Block(NfLine, 3),
      Block(Repeat(" ", 21) \o <<"x">>, 1),
      Block(NfLine, 100000),
      Block(NfLine, 1000000) }

\* the lines appended: each is a configuration item
ItemLines == { <<"k", "=", "v">>, Repeat(" ", 21) \o <<"A", "M", "F", ":", " ", "1">> }

\* the numbers k of lines appended
AppendCounts == {0, 1, 101, 1001}

InitComplexity ==
    /\ pc = "ready"
    /\ text \in SeqsOf(BaseBlocks, 1, MaxBlocks)
    /\ extracted = << >>
    /\ file = NoFile
    /\ detected = << >>
    /\ directory = NoDirectory
    /\ summary = << >>
    /\ results = << >>
    /\ preprocessor = NewPreProcessor
    /\ desensitizer = NewDesensitizer(TRUE, FALSE, FALSE)
    /\ chunker = DefaultChunker
    /\ call = NoCall
    /\ first = NoCall
    /\ chunks = << >>
    /\ merged = << >>

\* metadata = extractor.extract(content)
Extract ==
    /\ pc = "ready"
    /\ extracted' = Append(extracted, [content |-> text, metadata |-> MetadataExtractor_extract(text)])
    /\ pc' = "extracted"
    /\ UNCHANGED <<text, file, detected, directory, summary, results, preprocessor, desensitizer,
                   chunker, call, first, chunks, merged>>

\* k configuration-item lines are appended to the base text
AppendLines ==
    /\ pc = "extracted"
    /\ Len(extracted) = 1
    /\ \E line \in ItemLines, k \in AppendCounts :
           text' = IF k = 0 THEN text ELSE Append(text, Block(line, k))
    /\ pc' = "ready"
    /\ UNCHANGED <<extracted, file, detected, directory, summary, results, preprocessor,
                   desensitizer, chunker, call, first, chunks, merged>>

NextComplexity == Extract \/ AppendLines

SpecComplexity == InitComplexity /\ [][NextComplexity]_vars

\* C19: complexity scoring is monotonic: the score extract computes for a text
\* extended by k >= 0 configuration-item lines is at least the score of the
\* base text, and the level is low below 20, medium from 20 below 50 and high
\* from 50.
C19_ComplexityMonotonic ==
    /\ \A i \in 1..Len(extracted) : \A j \in i..Len(extracted) :
           extracted[j].metadata.complexity.score >= extracted[i].metadata.complexity.score
    /\ \A i \in 1..Len(extracted) :
           LET c == extracted[i].metadata.complexity
           IN  /\ c.score < 20 => c.level = "low"
               /\ (20 <= c.score /\ c.score < 50) => c.level = "medium"
               /\ c.score >= 50 => c.level = "high"

\* a base text of low complexity that appended lines took to high
C19_Witness ==
    /\ Len(extracted) >= 2
    /\ Len(extracted[Len(extracted)].content) > Len(extracted[1].content)
    /\ extracted[1].metadata.complexity.level = "low"
    /\ extracted[Len(extracted)].metadata.complexity.level = "high"
    /\ extracted[Len(extracted)].metadata.complexity.score
           > extracted[1].metadata.complexity.score

\* the word is part of the error text
Carries(entry, word) == \E i \in 1..Len(entry) : entry[i] = word

\* C21: process_file never raises: every error of a stage is caught at the
\* boundary of the orchestrator and returned as a ProcessingResult with
\* success=false whose errors carry the category and the message of the
\* exception, and the elapsed processing time is recorded.
C21_ErrorsCarryCategory ==
    \A k \in 1..Len(results) :
        /\ results[k].success <=> results[k].raised = << >>
        /\ results[k].processing_time = "elapsed"
        /\ ~results[k].success =>
               /\ results[k].errors # << >>
               /\ \A c \in ToSet(results[k].raised) :
                      \E i \in 1..Len(results[k].errors) : Carries(results[k].errors[i], c)

(***************************************************************************)
(* Configured patterns that do not compile                                 *)
(* ConfigDesensitizer._compile_patterns and the re.compile of              *)
(* _desensitize_passwords                                                  *)
(***************************************************************************)
\* the categories of desensitization.patterns that carry a 'pattern' entry
RegexCategories == {"ip_addresses", "phone_numbers", "imsi", "imei", "urls"}

\* a pattern text is a sequence of symbols: the pattern config.yaml gives to
\* category cat is the one symbol cat, and "(" opens a group
ConfiguredPattern(cat) == <<cat>>

MalformedPattern == <<"(">>

MalformedKeyword == <<"k", "e", "y", "(">>

Occurrences(s, ch) == Cardinality({i \in 1..Len(s) : s[i] = ch})

\* re.compile(pattern) raises re.error: a group is opened and never closed
re_error(pattern) == Occurrences(pattern, "(") > Occurrences(pattern, ")")

\* _compile_patterns, lines 40-57: re.error is caught per category and the
\* category is left out of the compiled dict
_compile_patterns(config) ==
    {key \in DOMAIN config.patterns : ~re_error(config.patterns[key])}

\* line 183: rf'({keyword})\s*[=:]\s*([^\s,;]+)'
PasswordPattern(keyword) ==
    <<"(">> \o keyword \o <<")", "separator", "(", "value", ")">>

\* line 184: re.compile(pattern, re.IGNORECASE) is outside any try: the
\* re.error of a keyword leaves _desensitize_passwords and desensitize_text
desensitize_text_raises(self) ==
    /\ self.enabled
    /\ \E k \in 1..Len(self.keywords) : re_error(PasswordPattern(self.keywords[k]))

\* ConfigDesensitizer(config_path), lines 19-32, for a loaded configuration
ConfigDesensitizer(config) ==
    [config |-> config] @@
    [NewDesensitizer(config.enabled, FALSE, FALSE) EXCEPT
         !.patterns = _compile_patterns(config),
         !.keywords = config.keywords]

\* configurations: every regex category with its configured or a malformed
\* pattern, the keyword list as configured or holding a malformed keyword
KeywordLists ==
    {PasswordKeywords, Append(PasswordKeywords, MalformedKeyword),
     <<MalformedKeyword>> \o PasswordKeywords}

PatternConfigs ==
    {[enabled |-> e, patterns |-> [c \in RegexCategories |->
                                      IF c \in bad THEN MalformedPattern
                                      ELSE ConfiguredPattern(c)],
      keywords |-> ks] :
        e \in BOOLEAN, bad \in SUBSET RegexCategories, ks \in KeywordLists}

\* the configuration with every entry that does not compile taken out
Pruned(config) ==
    [enabled |-> config.enabled,
     patterns |-> [c \in _compile_patterns(config) |-> config.patterns[c]],
     keywords |-> SelectSeq(config.keywords, LAMBDA kw : ~re_error(PasswordPattern(kw)))]

\* one value of every category
PatternTexts ==
    {Concat(<< <<"1", ".", "2", ".", "3", ".", "4">>, <<"\n">>,
               <<"1", "3", "8", "1", "2", "3", "4", "5", "6", "7", "8">>, <<"\n">>,
               <<"k", "e", "y", ":", "v", ";">>, <<"\n">>,
               <<"h", "t", "t", "p", ":", "/", "/", "a", ".", "c", "n", "/">> >>),
     Concat(<< <<"4", "6", "0", "0", "0", "1", "2", "3", "4", "5", "6", "7", "8", "9", "0">>,
               <<"\n">>,
               <<"8", "6", "1", "2", "3", "4", "5", "6", "7", "8", "9", "0", "1", "2", "3">>,
               <<"\n">>, <<"O", "r", "a", "n", "g", "e">> >>),
     <<"v">>}

InitPatterns ==
    /\ pc = "constructed"
    /\ desensitizer \in {ConfigDesensitizer(c) : c \in PatternConfigs}
    /\ text \in PatternTexts
    /\ call = NoCall
    /\ first = NoCall
    /\ chunker = DefaultChunker
    /\ chunks = << >>
    /\ merged = << >>
    /\ file = NoFile
    /\ preprocessor = NewPreProcessor
    /\ results = << >>
    /\ directory = NoDirectory
    /\ summary = << >>
    /\ detected = << >>
    /\ extracted = << >>

\* desensitize_text(text) returns
DesensitizeReturns ==
    /\ pc = "constructed"
    /\ ~desensitize_text_raises(desensitizer)
    /\ CallDesensitize(text)
    /\ pc' = "returned"
    /\ UNCHANGED <<chunker, text, chunks, merged, first, file, preprocessor, results,
                 directory, summary, detected, extracted>>

\* desensitize_text(text) is left by the re.error of line 184: nothing is
\* returned and _update_statistics (line 104) is not reached
DesensitizeRaises ==
    /\ pc = "constructed"
    /\ desensitize_text_raises(desensitizer)
    /\ pc' = "raised"
    /\ UNCHANGED <<desensitizer, call, chunker, text, chunks, merged, first, file,
                 preprocessor, results, directory, summary, detected, extracted>>

NextPatterns == DesensitizeReturns \/ DesensitizeRaises

SpecPatterns == InitPatterns /\ [][NextPatterns]_vars

\* C24: a malformed configured pattern never aborts desensitization: for
\* every configuration, the password keyword list included, desensitize_text
\* completes and returns what it returns under the configuration without the
\* entries that do not compile.
C24_MalformedPatternSkipped ==
    /\ pc # "raised"
    /\ pc = "returned" =>
           \E r \in {desensitize_text(ConfigDesensitizer(Pruned(desensitizer.config)), text)} :
               /\ call.result = r.result
               /\ call.local_mapping = r.local_mapping

(***************************************************************************)
(* Chunk numbering and the order merge_chunks works in                     *)
(***************************************************************************)
\* the list cs in the order given by the permutation p of its indices
Permuted(cs, p) == [k \in 1..Len(cs) |-> cs[p[k]]]

\* C25: for every strategy the chunks of one chunk_text call have chunk_id
\* 0, 1, ..., n-1 in list order, their start_line never decreases along the
\* list, and merge_chunks returns the same text for every permutation of it.
C25_ChunkIdsSequential ==
    pc = "chunked" =>
        /\ \A k \in 1..Len(chunks) : chunks[k].chunk_id = k - 1
        /\ \A k \in 1..(Len(chunks) - 1) : chunks[k].start_line <= chunks[k + 1].start_line
        /\ \A p \in Permutations(1..Len(chunks)) :
               merge_chunks(Permuted(chunks, p)) = merge_chunks(chunks)

\* C26: under every strategy each chunk has 1 <= start_line <= end_line <= L
\* and its content is the source lines start_line..end_line joined by
\* newlines, smart chunks with a preserve block or overlap lines included.
C26_ContentIsLineRange ==
    pc = "chunked" =>
        \A k \in 1..Len(chunks) :
            /\ 1 <= chunks[k].start_line
            /\ chunks[k].start_line <= chunks[k].end_line
            /\ chunks[k].end_line <= L
            /\ chunks[k].content =
                   JoinLines(SubSeq(SplitLines(text), chunks[k].start_line, chunks[k].end_line))

\* C27: with strategy fixed_size every chunk of more than one line has a
\* content of at most chunk_size_kb * 1024 bytes (only a chunk of a single
\* line may exceed the budget) and the recorded size_bytes is the byte length
\* of the chunk's content.
C27_FixedSizeBudget ==
    (pc = "chunked" /\ chunker.enabled /\ chunker.strategy = "fixed_size") =>
        \A k \in 1..Len(chunks) :
            /\ Len(SplitLines(chunks[k].content)) > 1
                   => ByteLen(chunks[k].content) <= target_size(chunker)
            /\ chunks[k].size_bytes = <<ByteLen(chunks[k].content)>>

(***************************************************************************)
(* Smart chunking of a text without preserve blocks                        *)
(***************************************************************************)
\* smart chunking has run with O < W on a text without preserve blocks
PlainSmart ==
    /\ pc = "chunked" /\ chunker.enabled /\ chunker.strategy = "smart"
    /\ O < W
    /\ _identify_preserve_blocks(SplitLines(text)) = << >>

HasMarker(line) == \E m \in 1..Len(section_markers) : Contains(line, section_markers[m])

\* chunk k was closed inside the loop (lines 163-173), not saved after it
ClosedInLoop(k) ==
    k < Len(chunks) \/ should_split(chunker, SplitLines(text), chunks[k].src, L)

\* the number of lines the next chunk takes over from chunk k
Overlap(k) == Min(O, Len(chunks[k].src))

\* C28: smart chunking with O < W of a text without preserve blocks: every
\* chunk has at most W lines, every chunk closed at a section marker has
\* more than W/2 lines, and every chunk after the first begins with exactly
\* the last min(O, length) lines of the chunk closed before it.
C28_SmartChunkSizes ==
    PlainSmart =>
        /\ \A k \in 1..Len(chunks) : Len(SplitLines(chunks[k].content)) <= W
        /\ \A k \in 1..Len(chunks) :
               (ClosedInLoop(k) /\ HasMarker(SplitLines(text)[chunks[k].end_line]))
                   => 2 * Len(SplitLines(chunks[k].content)) > W
        /\ \A k \in 1..(Len(chunks) - 1) :
               /\ Len(chunks[k + 1].src) >= Overlap(k)
               /\ SubSeq(chunks[k + 1].src, 1, Overlap(k))
                      = SubSeq(chunks[k].src, Len(chunks[k].src) - Overlap(k) + 1,
                               Len(chunks[k].src))
               /\ chunks[k + 1].start_line = chunks[k].end_line - Overlap(k) + 1

\* a chunk of fewer than W lines closed at a marker, followed by a chunk that
\* starts with its last line
C28_Witness ==
    /\ PlainSmart
    /\ O > 0
    /\ \E k \in 1..(Len(chunks) - 1) :
           /\ Len(chunks[k].src) < W
           /\ HasMarker(SplitLines(text)[chunks[k].end_line])
           /\ chunks[k + 1].src[1] = chunks[k].end_line

(***************************************************************************)
(* A ProcessingResult after later calls                                    *)
(***************************************************************************)
\* r.statistics as a caller reads it: the content of the dict the field refers to
StatisticsOf(r) ==
    IF r.statistics = "self.statistics" THEN preprocessor.statistics
    ELSE r.statistics_returned

\* C29: a ProcessingResult is a value that later operations do not change:
\* after further process_file calls on the same ConfigPreProcessor the
\* statistics of every earlier result read as they did when it was returned,
\* and no call changes the metadata, processed_files or errors of a result
\* returned before.
C29_ResultUnchangedByLaterCalls ==
    /\ [](\A k \in 1..Len(results) : StatisticsOf(results[k]) = results[k].statistics_returned)
    /\ [][\A k \in 1..Len(results) :
              /\ results'[k].metadata = results[k].metadata
              /\ results'[k].processed_files = results[k].processed_files
              /\ results'[k].errors = results[k].errors]_vars

(***************************************************************************)
(* Artifact paths of the files of one run                                  *)
(***************************************************************************)
\* C30: two distinct input files of one process_directory run never write
\* to the same artifact path, also when they share a base name.
C30_ArtifactPathsDistinct ==
    \A i, j \in 1..Len(results) :
        results[i].file_path # results[j].file_path
            => ToSet(results[i].processed_files) \cap ToSet(results[j].processed_files) = {}
====
